---- MODULE Spec2Model ----
(***************************************************************************)
(* A model of the S-Lang front end: the Lexer (src/src/lexer.cpp), the     *)
(* recursive-descent Parser (src/src/parser.cpp) and the command line of   *)
(* main (src/app/main.cpp).                                                *)
(*                                                                         *)
(* A byte is a one-character string; the terminating null of the source    *)
(* buffer is the string NUL.  A source text and a lexeme are sequences of  *)
(* bytes.  The Lexer's iterator `it` is the 1-based index of the next byte *)
(* to read in the buffer  code \o <<NUL>> \o (memory after the buffer).    *)
(* What lies after the terminator is not defined by the program: a read    *)
(* there yields an arbitrary byte or stops the process (outcome "fault").  *)
(***************************************************************************)
EXTENDS Integers, Sequences, FiniteSets, TLC

VARIABLES
    code,           \* Lexer::code, the source text
    plain,          \* the same text before a comment was inserted into it
    current_char,   \* Lexer::current_char
    it,             \* Lexer::it
    mem,            \* the bytes after the terminator that were read so far
    tokens,         \* the tokens get_token returned to a direct caller
    starts,         \* the position in code where each of them starts
    lastStart,      \* the position where the last call found its token
    outcome,        \* "running", or how the process ended
    current_token,  \* Parser::current_token
    ast,            \* what parse_expression returned
    phase,          \* "lex": the Lexer is driven directly; else the Parser
    argv,           \* main: argv[1] .. argv[argc - 1]
    arg_i,          \* main: the loop index i
    file_path,      \* main: file_path
    file_path_set,  \* main: file_path_set
    emit_IR,        \* main: emit_IR
    filename,       \* main: filename
    debug_mode      \* the global debug_mode

mainVars ==
    <<argv, arg_i, file_path, file_path_set, emit_IR, filename, debug_mode>>

vars ==
    <<code, plain, current_char, it, mem, tokens, starts, lastStart,
      outcome, current_token, ast, phase, argv, arg_i, file_path,
      file_path_set, emit_IR, filename, debug_mode>>

(***************************************************************************)
(* Bytes and character classes (<cctype>, "C" locale).                     *)
(***************************************************************************)
NUL ==
    "NUL"

Space ==
    {" ", "\t", "\n", "\r", "\f"}

Digits ==
    {"0", "1", "2", "3", "4", "5", "6", "7", "8", "9"}

Letters ==
    {"a", "b", "c", "d", "e", "f", "g", "h", "i", "j", "k", "l", "m",
     "n", "o", "p", "q", "r", "s", "t", "u", "v", "w", "x", "y", "z",
     "A", "B", "C", "D", "E", "F", "G", "H", "I", "J", "K", "L", "M",
     "N", "O", "P", "Q", "R", "S", "T", "U", "V", "W", "X", "Y", "Z"}

LineEnd ==
    {"\n", "\r"}

IdChars ==
    Letters \cup Digits \cup {"_", "?"}

(***************************************************************************)
(* The words of the language.                                              *)
(***************************************************************************)
Cancelled ==
    <<"C", "a", "n", "c", "e", "l", "l", "e", "d">>

Blocked ==
    <<"B", "l", "o", "c", "k", "e", "d">>

Unblocked ==
    <<"U", "n", "b", "l", "o", "c", "k", "e", "d">>

W_pluh ==
    <<"p", "l", "u", "h">>

W_plug ==
    <<"p", "l", "u", "g">>

W_cookUp ==
    <<"c", "o", "o", "k", "U", "p">>

W_fr ==
    <<"f", "r", "?">>

W_ong ==
    <<"o", "n", "g", "?">>

W_justLikeThat ==
    <<"j", "u", "s", "t", "L", "i", "k", "e", "T", "h", "a", "t", "?">>

W_holdUp ==
    <<"h", "o", "l", "d", "U", "p">>

W_ratioed ==
    <<"r", "a", "t", "i", "o", "e", "d">>

W_ghost ==
    <<"g", "h", "o", "s", "t">>

W_rizz ==
    <<"r", "i", "z", "z">>

W_periodt ==
    <<"p", "e", "r", "i", "o", "d", "t">>

W_facts ==
    <<"f", "a", "c", "t", "s">>

W_cap ==
    <<"c", "a", "p">>

W_spillingTheTeaAbout ==
    <<"s", "p", "i", "l", "l", "i", "n", "g", "T", "h", "e", "T", "e", "a",
      "A", "b", "o", "u", "t">>

W_gang ==
    <<"g", "a", "n", "g">>

W_yeet ==
    <<"y", "e", "e", "t">>

Keywords ==
    {W_pluh, W_plug, W_cookUp, W_fr, W_ong, W_justLikeThat, W_holdUp,
     W_ratioed, W_ghost, W_rizz, W_periodt, W_facts, W_cap,
     W_spillingTheTeaAbout, W_gang, W_yeet}

\* a keyword table that maps yeet to RETURN, as periodt
table_YeetReturn(identifier) ==
    CASE identifier = W_pluh -> "DEF"
      [] identifier = W_plug -> "EXTERN"
      [] identifier = W_cookUp -> "LET"
      [] identifier = W_fr -> "IF"
      [] identifier = W_ong -> "ELSEIF"
      [] identifier = W_justLikeThat -> "ELSE"
      [] identifier = W_holdUp -> "WHILE"
      [] identifier = W_ratioed -> "FOR"
      [] identifier = W_ghost -> "BREAK"
      [] identifier = W_rizz -> "CONTINUE"
      [] identifier = W_periodt -> "RETURN"
      [] identifier = W_facts -> "BOOL"
      [] identifier = W_cap -> "BOOL"
      [] identifier = W_spillingTheTeaAbout -> "PROGRAM"
      [] identifier = W_gang -> "ARRAY"
      [] identifier = W_yeet -> "RETURN"
      [] OTHER -> "IDENTIFIER"

\* Lexer::table, and IDENTIFIER for a word that is not in it
table(identifier) ==
    CASE identifier = W_pluh -> "DEF"
      [] identifier = W_plug -> "EXTERN"
      [] identifier = W_cookUp -> "LET"
      [] identifier = W_fr -> "IF"
      [] identifier = W_ong -> "ELSEIF"
      [] identifier = W_justLikeThat -> "ELSE"
      [] identifier = W_holdUp -> "WHILE"
      [] identifier = W_ratioed -> "FOR"
      [] identifier = W_ghost -> "BREAK"
      [] identifier = W_rizz -> "CONTINUE"
      [] identifier = W_periodt -> "RETURN"
      [] identifier = W_facts -> "BOOL"
      [] identifier = W_cap -> "BOOL"
      [] identifier = W_spillingTheTeaAbout -> "PROGRAM"
      [] identifier = W_gang -> "ARRAY"
      [] identifier = W_yeet -> "EXITCODE"
      [] OTHER -> "IDENTIFIER"

Token(kind, lexeme) ==
    [kind |-> kind, lexeme |-> lexeme]

EndOfFile ==
    Token("END_OF_FILE", <<>>)

(***************************************************************************)
(* The cursor.  A cursor state is [cc, it, fault]: current_char, it, and   *)
(* whether a read went outside the memory the process may touch.           *)
(***************************************************************************)
Buffer(src, tail) ==
    src \o <<NUL>> \o tail

\* current_char = *(it++)
Advance(b, s) ==
    IF s.fault \/ s.it > Len(b)
    THEN [s EXCEPT !.fault = TRUE]
    ELSE [cc |-> b[s.it], it |-> s.it + 1, fault |-> FALSE]

is_operator(op) ==
    op \in {"+", "-", "*", "/", "%", ">", "<", "=", "!"}

is_valid_next_char(op, next_char) ==
    CASE op \in {"<", ">", "=", "!"} -> next_char = NUL \/ next_char = "="
      [] op \in {"+", "-", "*", "/", "%", "^"} -> next_char = NUL
      [] OTHER -> FALSE

RECURSIVE KeywordLoop(_, _, _, _, _)
\* the loop of is_keyword: t is [tmp, it], i the index of ch, s the cursor
\* at the call.  current_char takes tmp only on a match; it stays where
\* the loop left it either way.
KeywordLoop(b, keyword, i, t, s) ==
    IF i > Len(keyword)
    THEN [match |-> TRUE,
          s |-> [cc |-> t.tmp, it |-> t.it, fault |-> FALSE]]
    ELSE IF t.tmp # keyword[i] \/ t.tmp = NUL \/ t.tmp \in LineEnd
    THEN [match |-> FALSE,
          s |-> [cc |-> s.cc, it |-> t.it, fault |-> FALSE]]
    ELSE IF t.it > Len(b)
    THEN [match |-> FALSE,
          s |-> [cc |-> s.cc, it |-> t.it, fault |-> TRUE]]
    ELSE KeywordLoop(b, keyword, i + 1,
                     [tmp |-> b[t.it], it |-> t.it + 1], s)

\* Lexer::is_keyword: the answer and the cursor it leaves
is_keyword(b, s, keyword) ==
    KeywordLoop(b, keyword, 1, [tmp |-> s.cc, it |-> s.it], s)

RECURSIVE SkipSpace(_, _)
SkipSpace(b, s) ==
    IF ~s.fault /\ s.cc \in Space
    THEN SkipSpace(b, Advance(b, s))
    ELSE s

RECURSIVE SkipLine(_, _)
\* do current_char = *(it++) while it is not NUL, \n or \r
SkipLine(b, s) ==
    LET n == Advance(b, s)
    IN  IF ~n.fault /\ n.cc # NUL /\ n.cc \notin LineEnd
        THEN SkipLine(b, n)
        ELSE n

RECURSIVE SkipBlock(_, _)
\* do current_char = *(it++) while it is not NUL and !is_keyword("Unblocked")
SkipBlock(b, s) ==
    LET n == Advance(b, s)
        Closed(k) ==
            IF k.s.fault \/ k.match
            THEN k.s
            ELSE SkipBlock(b, k.s)
    IN  IF n.fault \/ n.cc = NUL
        THEN n
        ELSE Closed(is_keyword(b, n, Unblocked))

(***************************************************************************)
(* What get_token hands back: the token, the cursor it leaves, how the     *)
(* call ended ("ok", "InvalidLiteral" for the catch block that prints the  *)
(* diagnostic and calls exit(1), "fault"), and where the token started.    *)
(***************************************************************************)
Result(tok, s, out, start) ==
    [tok |-> tok, s |-> s, out |-> out, start |-> start]

Returned(tok, s, start) ==
    Result(tok, s, IF s.fault THEN "fault" ELSE "ok", start)

Thrown(s, start) ==
    Result(EndOfFile, s, IF s.fault THEN "fault" ELSE "InvalidLiteral", start)

\* the char literal branch; s.cc is the opening quote
ScanChar(b, s, start) ==
    LET \* s1 holds the payload byte; *(it++) is the closing quote
        Closing(s1) ==
            IF s1.fault \/ s1.it > Len(b)
            THEN Thrown([s1 EXCEPT !.fault = TRUE], start)
            ELSE IF b[s1.it] # "'"
            THEN Thrown([s1 EXCEPT !.it = s1.it + 1], start)
            ELSE Returned(Token("CHAR", <<s1.cc>>),
                          Advance(b, [s1 EXCEPT !.it = s1.it + 1]), start)
    IN  Closing(Advance(b, s))

RECURSIVE StringLoop(_, _, _)
\* while (current_char != '"'): the cursor, str_val, and whether it threw
StringLoop(b, s, str_val) ==
    IF s.fault
    THEN [s |-> s, str_val |-> str_val, thrown |-> FALSE]
    ELSE IF s.cc = "\""
    THEN [s |-> s, str_val |-> str_val, thrown |-> FALSE]
    ELSE IF s.cc = NUL
    THEN [s |-> s, str_val |-> str_val, thrown |-> TRUE]
    ELSE StringLoop(b, Advance(b, s), Append(str_val, s.cc))

\* the string literal branch; s.cc is the opening quote
ScanString(b, s, start) ==
    LET Closed(r) ==
            IF r.s.fault \/ r.thrown
            THEN Thrown(r.s, start)
            ELSE Returned(Token("STRING", r.str_val), Advance(b, r.s), start)
    IN  Closed(StringLoop(b, Advance(b, s), <<>>))

\* a number loop without the test for a second decimal point
SecondPoint_Accepted(decimal_found) ==
    FALSE

\* if (decimal_found) throw, at a '.'
SecondPoint(decimal_found) ==
    decimal_found

RECURSIVE NumberLoop(_, _, _, _)
\* the do-while of the numeric branch
NumberLoop(b, s, num_str, decimal_found) ==
    IF s.fault \/ s.cc = NUL
    THEN [s |-> s, num_str |-> num_str, dec |-> decimal_found,
          thrown |-> TRUE]
    ELSE IF s.cc = "." /\ SecondPoint(decimal_found)
    THEN [s |-> s, num_str |-> num_str, dec |-> decimal_found,
          thrown |-> TRUE]
    ELSE LET n == Advance(b, s)
             d == decimal_found \/ s.cc = "."
             str == Append(num_str, s.cc)
         IN  IF ~n.fault /\ (n.cc \in Digits \/ n.cc = ".")
             THEN NumberLoop(b, n, str, d)
             ELSE [s |-> n, num_str |-> str, dec |-> d, thrown |-> FALSE]

\* the numeric branch; s.cc is a digit or '.'
ScanNumber(b, s, start) ==
    LET Number(r) ==
            IF r.s.fault \/ r.thrown
            THEN Thrown(r.s, start)
            ELSE Returned(Token(IF r.dec THEN "FLOAT" ELSE "INT", r.num_str),
                          r.s, start)
    IN  Number(NumberLoop(b, s, <<>>, FALSE))

RECURSIVE IdentifierLoop(_, _, _)
\* while (isalnum(current_char = *(it++)) || '_' || '?')
IdentifierLoop(b, s, identifier) ==
    LET n == Advance(b, s)
    IN  IF ~n.fault /\ n.cc \in IdChars
        THEN IdentifierLoop(b, n, Append(identifier, n.cc))
        ELSE [s |-> n, identifier |-> identifier]

\* the identifier branch; s.cc is a letter
ScanIdentifier(b, s, start) ==
    LET Word(r) ==
            Returned(Token(table(r.identifier), r.identifier), r.s, start)
    IN  Word(IdentifierLoop(b, s, <<s.cc>>))

RECURSIVE OperatorLoop(_, _, _)
\* while (is_valid_next_char(op.back(), current_char))
OperatorLoop(b, s, op) ==
    IF ~s.fault /\ is_valid_next_char(op[Len(op)], s.cc)
    THEN OperatorLoop(b, Advance(b, s), Append(op, s.cc))
    ELSE [s |-> s, op |-> op]

\* the last branch: COMPLEX or OPERATOR
ScanOperator(b, s, start) ==
    LET prev_char == s.cc
        Folded(r) ==
            Returned(Token("OPERATOR", r.op), r.s, start)
        Branch(s1) ==
            IF s1.fault
            THEN Returned(EndOfFile, s1, start)
            ELSE IF ~is_operator(prev_char)
            THEN Returned(Token("COMPLEX", <<prev_char>>), s1, start)
            ELSE Folded(OperatorLoop(b, s1, <<prev_char>>))
    IN  Branch(Advance(b, s))

\* get_token from the char literal branch on
Scan(b, s, start) ==
    CASE s.fault -> Returned(EndOfFile, s, start)
      [] ~s.fault /\ s.cc = "'" -> ScanChar(b, s, start)
      [] ~s.fault /\ s.cc = "\"" -> ScanString(b, s, start)
      [] ~s.fault /\ (s.cc \in Digits \/ s.cc = ".") -> ScanNumber(b, s, start)
      [] ~s.fault /\ s.cc \in Letters -> ScanIdentifier(b, s, start)
      [] ~s.fault /\ s.cc = NUL -> Returned(EndOfFile, s, start)
      [] OTHER -> ScanOperator(b, s, start)

RECURSIVE get_token(_, _)
\* Lexer::get_token on the buffer b from the cursor s
get_token(b, s) ==
    LET \* after a comment: END_OF_FILE at the terminator, else get_token()
        Skipped(l, start) ==
            IF ~l.fault /\ l.cc # NUL
            THEN get_token(b, l)
            ELSE Returned(EndOfFile, l, start)
        \* if (is_keyword("Blocked")), then the token branches
        IfBlocked(k2, start) ==
            IF k2.match
            THEN Skipped(SkipBlock(b, k2.s), start)
            ELSE Scan(b, k2.s, start)
        \* if (is_keyword("Cancelled"))
        IfCancelled(k1, start) ==
            IF k1.match
            THEN Skipped(SkipLine(b, k1.s), start)
            ELSE IF k1.s.fault
            THEN Returned(EndOfFile, k1.s, start)
            ELSE IfBlocked(is_keyword(b, k1.s, Blocked), start)
        \* s1 is the cursor after the white space
        Begin(s1) ==
            IF s1.fault
            THEN Returned(EndOfFile, s1, s1.it - 1)
            ELSE IfCancelled(is_keyword(b, s1, Cancelled), s1.it - 1)
    IN  Begin(SkipSpace(b, s))

(***************************************************************************)
(* The sources the model lexes.                                            *)
(***************************************************************************)
MaxPieces ==
    3

MaxOver ==
    2

CorePieces ==
    {<<"a">>, <<"C">>, <<"1">>, <<".">>, <<"+">>, <<"<">>, <<"=">>, <<" ">>,
     <<"\n">>, <<"'">>, <<"\"">>, <<"U">>, Cancelled, Blocked, Unblocked}

RECURSIVE Concats(_)
\* the texts made of at most n pieces
Concats(n) ==
    IF n = 0
    THEN {<<>>}
    ELSE LET shorter == Concats(n - 1)
         IN  shorter \cup {s \o p : s \in shorter, p \in CorePieces}

Words ==
    Keywords \cup
    {<<"x", "1">>, <<"a", "_", "b", "?">>, <<"i", "n", "t">>,
     <<"B", "o", "b">>, <<"C", "a", "t">>, <<"t", "r", "u", "e">>}

WordSources ==
    {w \o t : w \in Words,
              t \in {<<>>, <<" ">>, <<" ", "1">>, <<"(">>, <<"+">>}}

\* texts of tests/test_lexer.cpp and of the scenarios
YeetSource ==
    W_yeet \o <<" ", "1", "3", "3", "7">>

TestSources ==
    {YeetSource,
     W_periodt \o <<" ", "1", "3", "3", "7">>,
     W_yeet \o <<" ", "0">>,
     <<"1", ".", "2", ".", "3">>,
     <<"'", "a", "b", "'">>,
     <<"1", " ", "1", "2", " ", "-", "1", "2", "3", " ", "'", "a", "'">>,
     <<"(", "1", " ", ">", "=", " ", "4", ")", " ", "!", "=", " ">>
        \o W_facts}

Sources ==
    Concats(MaxPieces) \cup WordSources \cup TestSources

\* comments, and the texts they are inserted into
LineComments ==
    {Cancelled \o body \o <<"\n">> :
        body \in {<<>>, <<" ", "x">>, <<" ", "'">>}}

BlockComments ==
    {Blocked \o body \o Unblocked :
        body \in {<<>>, <<" ">>, <<" ", "x", "\n", "y", " ">>, <<" ", "U">>,
                  <<" ", "U", " ">>}}

Comments ==
    LineComments \cup BlockComments

Fronts ==
    {<<"a", " ">>, <<"1", "\n">>, <<"<", "=", " ">>}

Backs ==
    {<<" ", "b">>, <<" ", "b", "\n", "c">>, <<"\n", "2">>}

CommentCases ==
    {[with |-> f \o c \o k, without |-> f \o k] :
        f \in Fronts, c \in Comments, k \in Backs}

TailBytes ==
    {NUL, "=", "'", "a"}

RECURSIVE SeqsUpTo(_, _)
SeqsUpTo(S, n) ==
    IF n = 0
    THEN {<<>>}
    ELSE LET shorter == SeqsUpTo(S, n - 1)
         IN  shorter \cup {Append(s, x) : s \in shorter, x \in S}

\* what the memory after the terminator may hold, as far as it is readable
Tails ==
    SeqsUpTo(TailBytes, MaxOver)

IsPrefix(s, t) ==
    Len(s) <= Len(t) /\ SubSeq(t, 1, Len(s)) = s

(***************************************************************************)
(* The Lexer driven directly, as tests/test_lexer.cpp drives it.           *)
(***************************************************************************)
NoToken ==
    Token("NONE", <<>>)

NoAst ==
    [type |-> "None"]

W_output_ll ==
    <<"o", "u", "t", "p", "u", "t", ".", "l", "l">>

\* the locals of main as they are declared, and debug_mode as it is defined
MainLocals ==
    /\ arg_i = 1
    /\ file_path = <<>>
    /\ file_path_set = FALSE
    /\ emit_IR = FALSE
    /\ filename = W_output_ll
    /\ debug_mode = FALSE

\* the Lexer and the Parser are driven without a command line
NoCommandLine ==
    argv = <<>> /\ MainLocals

\* Lexer::Lexer
LexerInit(src, base) ==
    /\ code = src
    /\ plain = base
    /\ current_char = " "
    /\ it = 1
    /\ mem = <<>>
    /\ tokens = <<>>
    /\ starts = <<>>
    /\ lastStart = 0
    /\ outcome = "running"

Init ==
    /\ \/ \E src \in Sources : LexerInit(src, src)
       \/ \E c \in CommentCases : LexerInit(c.with, c.without)
    /\ current_token = NoToken
    /\ ast = NoAst
    /\ phase = "lex"
    /\ NoCommandLine

Cursor ==
    [cc |-> current_char, it |-> it, fault |-> FALSE]

\* the bytes after the terminator that a cursor at position i has passed
Overread(src, tail, i) ==
    LET n == (i - 1) - (Len(src) + 1)
    IN  IF n <= 0 THEN <<>>
        ELSE IF n >= Len(tail) THEN tail
        ELSE SubSeq(tail, 1, n)

EofTwice ==
    /\ Len(tokens) >= 2
    /\ tokens[Len(tokens)] = EndOfFile
    /\ tokens[Len(tokens) - 1] = EndOfFile

CanCall ==
    /\ phase = "lex"
    /\ outcome = "running"
    /\ ~EofTwice

\* The memory images a call is tried on.  A call that stays inside the
\* bytes read so far returns the same on every image that extends them.
TailsToTry ==
    IF get_token(Buffer(code, mem), Cursor).out # "fault"
    THEN {mem}
    ELSE {tail \in Tails : IsPrefix(mem, tail)}

\* a call of get_token that returns a token
GetTokenReturns ==
    /\ CanCall
    /\ LET Returns(r, tail) ==
               /\ r.out = "ok"
               /\ current_char' = r.s.cc
               /\ it' = r.s.it
               /\ mem' = Overread(code, tail, r.s.it)
               /\ tokens' = Append(tokens, r.tok)
               /\ starts' = Append(starts, r.start)
               /\ lastStart' = r.start
       IN  \E tail \in TailsToTry :
               Returns(get_token(Buffer(code, tail), Cursor), tail)
    /\ UNCHANGED mainVars
    /\ UNCHANGED <<code, plain, outcome, current_token, ast, phase>>

\* a call of get_token that throws: diagnostic and exit(1)
GetTokenExits ==
    /\ CanCall
    /\ LET Exits(r, tail) ==
               /\ r.out = "InvalidLiteral"
               /\ current_char' = r.s.cc
               /\ it' = r.s.it
               /\ mem' = Overread(code, tail, r.s.it)
               /\ lastStart' = r.start
               /\ outcome' = "InvalidLiteral"
       IN  \E tail \in TailsToTry :
               Exits(get_token(Buffer(code, tail), Cursor), tail)
    /\ UNCHANGED mainVars
    /\ UNCHANGED <<code, plain, tokens, starts, current_token, ast, phase>>

\* a call of get_token that reads where the process has no memory
GetTokenFaults ==
    /\ CanCall
    /\ LET Faults(r, tail) ==
               /\ r.out = "fault"
               /\ mem' = tail
               /\ lastStart' = r.start
               /\ outcome' = "fault"
       IN  \E tail \in TailsToTry :
               Faults(get_token(Buffer(code, tail), Cursor), tail)
    /\ UNCHANGED mainVars
    /\ UNCHANGED <<code, plain, current_char, it, tokens, starts,
                   current_token, ast, phase>>

Next ==
    \/ GetTokenReturns
    \/ GetTokenExits
    \/ GetTokenFaults

Spec ==
    Init /\ [][Next]_vars

ExitCode ==
    CASE outcome \in {"InvalidLiteral", "ParseLogic", "Usage",
                      "ProcessFile"} -> 1
      [] OTHER -> 0

(***************************************************************************)
(* The Parser: expressions.  A parser state is [s, tok, out]: the cursor   *)
(* of its Lexer, current_token, and "ok" or the reason the process exited. *)
(* A parse routine gives [node, ps]; once ps.out is not "ok" the process   *)
(* has exited and the node means nothing.                                  *)
(***************************************************************************)
MaxInt ==
    2147483647

Lit(kind, value) ==
    [type |-> "Lit", kind |-> kind, value |-> value]

Var(name) ==
    [type |-> "Var", name |-> name]

Unary(op, rhs) ==
    [type |-> "Unary", op |-> op, rhs |-> rhs]

Binary(op, lhs, rhs) ==
    [type |-> "Binary", op |-> op, lhs |-> lhs, rhs |-> rhs]

Call(callee, args) ==
    [type |-> "Call", callee |-> callee, args |-> args]

Parsed(node, ps) ==
    [node |-> node, ps |-> ps]

\* a routine that reports the error and goes on instead of leaving
Failed_Recovers(ps, why) ==
    [node |-> NoAst, ps |-> ps]

Failed(ps, why) ==
    [node |-> NoAst, ps |-> [ps EXCEPT !.out = IF ps.out = "ok" THEN why ELSE ps.out]]

\* current_token = lexer.get_token()
NextToken(b, ps) ==
    IF ps.out # "ok"
    THEN ps
    ELSE LET Fetched(r) == [s |-> r.s, tok |-> r.tok, out |-> r.out]
         IN  Fetched(get_token(b, ps.s))

\* Parser::get_op_precedence of the token tok
get_op_precedence(tok) ==
    CASE tok.lexeme \in {<<"<">>, <<"<", "=">>, <<">">>, <<">", "=">>,
                         <<"=", "=">>, <<"!", "=">>} -> 10
      [] tok.lexeme \in {<<"+">>, <<"-">>} -> 20
      [] tok.lexeme \in {<<"*">>, <<"/">>, <<"%">>} -> 40
      [] OTHER -> -1

DigitValue(d) ==
    CASE d = "0" -> 0 [] d = "1" -> 1 [] d = "2" -> 2 [] d = "3" -> 3
      [] d = "4" -> 4 [] d = "5" -> 5 [] d = "6" -> 6 [] d = "7" -> 7
      [] d = "8" -> 8 [] d = "9" -> 9

OutOfRange ==
    -1

RECURSIVE Decimal(_)
\* the number a run of digits denotes, OutOfRange when it is above MaxInt
Decimal(digits) ==
    IF digits = <<>>
    THEN 0
    ELSE LET front == Decimal(SubSeq(digits, 1, Len(digits) - 1))
             d == DigitValue(digits[Len(digits)])
         IN  IF front = OutOfRange
                    \/ front > MaxInt \div 10
                    \/ (front = MaxInt \div 10 /\ d > MaxInt % 10)
             THEN OutOfRange
             ELSE 10 * front + d

\* Parser::parse_int: std::stoi throws out_of_range above INT_MAX
parse_int(b, ps) ==
    LET value == Decimal(ps.tok.lexeme)
    IN  IF value = OutOfRange
        THEN Failed(ps, "Exception")
        ELSE Parsed(Lit("int", value), NextToken(b, ps))

RECURSIVE StripZeros(_)
StripZeros(digits) ==
    IF digits # <<>> /\ digits[Len(digits)] = "0"
    THEN StripZeros(SubSeq(digits, 1, Len(digits) - 1))
    ELSE digits

\* Parser::parse_float: std::stod throws invalid_argument without a digit.
\* The value is kept as the integer of its digits and the number of
\* digits after the point.
parse_float(b, ps) ==
    LET text == ps.tok.lexeme
        point == CHOOSE i \in DOMAIN text : text[i] = "."
        whole == SubSeq(text, 1, point - 1)
        frac == StripZeros(SubSeq(text, point + 1, Len(text)))
    IN  IF Len(text) = 1
        THEN Failed(ps, "Exception")
        ELSE Parsed(Lit("float", [digits |-> Decimal(whole \o frac),
                                  scale |-> Len(frac)]),
                    NextToken(b, ps))

\* Parser::parse_bool
parse_bool(b, ps) ==
    Parsed(Lit("bool", ps.tok.lexeme = <<"t", "r", "u", "e">>),
           NextToken(b, ps))

\* Parser::parse_char
parse_char(b, ps) ==
    Parsed(Lit("char", ps.tok.lexeme[1]), NextToken(b, ps))

\* Parser::parse_string
parse_string(b, ps) ==
    Parsed(Lit("string", ps.tok.lexeme), NextToken(b, ps))

\* a climb that never recurses into the right-hand side
ShouldRecurse_Never(token_precedence, next_precedence) ==
    FALSE

\* if (token_precedence < next_precedence) in parse_binary_op_rhs
ShouldRecurse(token_precedence, next_precedence) ==
    token_precedence < next_precedence

\* a recursion that lets the right-hand side take operators of the level
\* of op as well
RhsPrecedence_SameLevel(token_precedence) ==
    token_precedence

\* the expression_precedence of parse_binary_op_rhs(token_precedence + 1, rhs)
RhsPrecedence(token_precedence) ==
    token_precedence + 1

\* a parser that applies a unary operator to any operand
RejectsUnary_Never(kind) ==
    FALSE

\* the operands parse_unary_expression refuses after a unary operator
RejectsUnary(kind) ==
    kind \in {"CHAR", "STRING"}

RECURSIVE parse_expression(_, _)
RECURSIVE parse_parentheses_expression(_, _)
RECURSIVE parse_atomic_type(_, _)
RECURSIVE parse_unary_expression(_, _)
RECURSIVE parse_binary_op_rhs(_, _, _, _)
RECURSIVE ArgumentLoop(_, _, _)
RECURSIVE parse_argument_call_list(_, _)
RECURSIVE parse_identifier_or_pluh_call(_, _)

\* Parser::parse_expression
parse_expression(b, ps) ==
    LET Rest(lhs) ==
            IF lhs.ps.out # "ok"
            THEN lhs
            ELSE parse_binary_op_rhs(b, 0, lhs.node, lhs.ps)
    IN  Rest(parse_unary_expression(b, ps))

\* Parser::parse_parentheses_expression; the current token is "("
parse_parentheses_expression(b, ps) ==
    LET Close(node) ==
            IF node.ps.out # "ok"
            THEN node
            ELSE IF node.ps.tok.lexeme # <<")">>
            THEN Failed(node.ps, "ParseLogic")
            ELSE Parsed(node.node, NextToken(b, node.ps))
    IN  Close(parse_expression(b, NextToken(b, ps)))

\* Parser::parse_atomic_type
parse_atomic_type(b, ps) ==
    CASE ps.out # "ok" -> Failed(ps, ps.out)
      [] ps.out = "ok" /\ ps.tok.kind = "IDENTIFIER" ->
            parse_identifier_or_pluh_call(b, ps)
      [] ps.out = "ok" /\ ps.tok.kind = "INT" -> parse_int(b, ps)
      [] ps.out = "ok" /\ ps.tok.kind = "FLOAT" -> parse_float(b, ps)
      [] ps.out = "ok" /\ ps.tok.kind = "BOOL" -> parse_bool(b, ps)
      [] ps.out = "ok" /\ ps.tok.kind = "CHAR" -> parse_char(b, ps)
      [] ps.out = "ok" /\ ps.tok.kind = "STRING" -> parse_string(b, ps)
      [] ps.out = "ok" /\ ps.tok.kind = "COMPLEX" ->
            IF ps.tok.lexeme = <<"(">>
            THEN parse_parentheses_expression(b, ps)
            ELSE Failed(ps, "ParseLogic")
      [] OTHER -> Failed(ps, "ParseLogic")

\* Parser::parse_unary_expression
parse_unary_expression(b, ps) ==
    IF ps.out # "ok"
    THEN Failed(ps, ps.out)
    ELSE IF ps.tok.lexeme \in {<<"+">>, <<"-">>, <<"!">>}
    THEN LET op == ps.tok
             Applied(rhs) ==
                 IF rhs.ps.out # "ok"
                 THEN rhs
                 ELSE Parsed(Unary(op.lexeme, rhs.node), rhs.ps)
             Operand(p1) ==
                 IF p1.out # "ok"
                 THEN Failed(p1, p1.out)
                 ELSE IF RejectsUnary(p1.tok.kind)
                 THEN Failed(p1, "ParseLogic")
                 ELSE Applied(parse_unary_expression(b, p1))
         IN  Operand(NextToken(b, ps))
    ELSE parse_atomic_type(b, ps)

\* Parser::parse_binary_op_rhs; one round of its while (true)
parse_binary_op_rhs(b, expression_precedence, lhs, ps) ==
    LET token_precedence == get_op_precedence(ps.tok)
        op == ps.tok
        \* lhs = BinaryExpression(op, lhs, rhs) and the next round
        Merge(rhs) ==
            IF rhs.ps.out # "ok"
            THEN rhs
            ELSE parse_binary_op_rhs(b, expression_precedence,
                                     Binary(op.lexeme, lhs, rhs.node), rhs.ps)
        \* first is the unary expression after op
        Climb(first) ==
            Merge(IF first.ps.out = "ok"
                       /\ ShouldRecurse(token_precedence,
                                        get_op_precedence(first.ps.tok))
                  THEN parse_binary_op_rhs(b, RhsPrecedence(token_precedence),
                                           first.node, first.ps)
                  ELSE first)
    IN  IF ps.out # "ok"
        THEN Failed(ps, ps.out)
        ELSE IF token_precedence < expression_precedence
        THEN Parsed(lhs, ps)
        ELSE Climb(parse_unary_expression(b, NextToken(b, ps)))

\* the while (true) of parse_argument_call_list: [args, ps]
ArgumentLoop(b, ps, args) ==
    LET Pushed(arg, more) ==
            IF arg.ps.out # "ok"
            THEN [args |-> args, ps |-> arg.ps]
            ELSE IF arg.ps.tok.lexeme = <<")">>
            THEN [args |-> more, ps |-> arg.ps]
            ELSE IF arg.ps.tok.lexeme # <<",">>
            THEN [args |-> more, ps |-> [arg.ps EXCEPT !.out = "ParseLogic"]]
            ELSE ArgumentLoop(b, NextToken(b, arg.ps), more)
        Taken(arg) ==
            Pushed(arg, Append(args, arg.node))
    IN  Taken(parse_expression(b, ps))

\* Parser::parse_argument_call_list: [args, ps]
parse_argument_call_list(b, ps) ==
    LET Close(r) == [args |-> r.args, ps |-> NextToken(b, r.ps)]
    IN  Close(IF ps.out = "ok" /\ ps.tok.lexeme # <<")">>
              THEN ArgumentLoop(b, ps, <<>>)
              ELSE [args |-> <<>>, ps |-> ps])

\* Parser::parse_identifier_or_pluh_call
parse_identifier_or_pluh_call(b, ps) ==
    LET identifier == ps.tok.lexeme
        Invoked(list) ==
            IF list.ps.out # "ok"
            THEN Failed(list.ps, list.ps.out)
            ELSE Parsed(Call(identifier, list.args), list.ps)
        Named(p1) ==
            IF p1.out # "ok"
            THEN Failed(p1, p1.out)
            ELSE IF p1.tok.lexeme # <<"(">>
            THEN Parsed(Var(identifier), p1)
            ELSE Invoked(parse_argument_call_list(b, NextToken(b, p1)))
    IN  Named(NextToken(b, ps))

(***************************************************************************)
(* The Parser: statements.  Names and type names are lexemes.              *)
(***************************************************************************)
CookedUpStatement(name, type_name) ==
    [type |-> "CookedUp", name |-> name, type_name |-> type_name]

CookedUpAssignmentStatement(name, type_name, expr) ==
    [type |-> "CookedUpAssignment", name |-> name, type_name |-> type_name,
     expr |-> expr]

AssignmentStatement(name, expr) ==
    [type |-> "Assignment", name |-> name, expr |-> expr]

FrOngJustLikeThatStatement(condition, then_stmt, else_stmt) ==
    [type |-> "FrOngJustLikeThat", condition |-> condition,
     then_stmt |-> then_stmt, else_stmt |-> else_stmt]

HoldUpStatement(condition, body) ==
    [type |-> "HoldUp", condition |-> condition, body |-> body]

GhostStatement ==
    [type |-> "Ghost"]

RizzStatement ==
    [type |-> "Rizz"]

YeetStatement(expr) ==
    [type |-> "Yeet", expr |-> expr]

CompoundStatement(statements) ==
    [type |-> "Compound", statements |-> statements]

\* an else part that is not an empty CompoundStatement
EmptyElse_Ghost ==
    GhostStatement

\* std::make_unique<CompoundStatement>(std::vector<Statement>()), the else
\* part of a statement that has none
EmptyElse ==
    CompoundStatement(<<>>)

\* a block that claims a return whatever it ends in
ReturnTypeOf_AlwaysNonNpc(statements) ==
    "nonnpc"

\* the returntype parse_curly_compound reports for its statements
ReturnTypeOf(statements) ==
    IF statements # <<>> /\ statements[Len(statements)].type = "Yeet"
    THEN "nonnpc"
    ELSE "npc"

\* what a routine that exited hands back; the block routine adds returntype
Exited(ps) ==
    [node |-> NoAst, ps |-> ps, returntype |-> ""]

\* The routines of the Parser call one another, and get_token, through
\* Parser(routine, b, ps, x): the routine named, run on the buffer b in the
\* parser state ps; x is parse_tea's third argument, <<>> elsewhere.
RECURSIVE Parser(_, _, _, _)
RECURSIVE StatementLoop(_, _, _)

\* Parser::parse_cookup_or_cookupassign; the current token is the LET word
parse_cookup_or_cookupassign(b, ps) ==
    LET Initialised(var_name, type_name, expr) ==
            IF expr.ps.out # "ok"
            THEN expr
            ELSE Parsed(CookedUpAssignmentStatement(var_name, type_name,
                                                    expr.node), expr.ps)
        \* p4 holds the token after the type name
        Declared(var_name, type_name, p4) ==
            IF p4.out # "ok"
            THEN Failed(p4, p4.out)
            ELSE IF p4.tok.lexeme = <<"=">>
            THEN Initialised(var_name, type_name,
                     Parser("parse_expression", b,
                            Parser("get_token", b, p4, <<>>), <<>>))
            ELSE Parsed(CookedUpStatement(var_name, type_name), p4)
        \* p3 holds the type name
        Typed(var_name, p3) ==
            Declared(var_name, p3.tok.lexeme, Parser("get_token", b, p3, <<>>))
        \* p1 holds the variable name; the token after it is skipped
        Named(p1) ==
            Typed(p1.tok.lexeme,
                Parser("get_token", b,
                       Parser("get_token", b, p1, <<>>), <<>>))
    IN  Named(Parser("get_token", b, ps, <<>>))

\* a call statement that assigns the result to the name of the callee
CallTarget_Callee(var_name) ==
    var_name

\* the name a call statement assigns the discarded result to
CallTarget(var_name) ==
    <<"@">>

\* Parser::parse_assignment_or_call; the current token is the identifier
parse_assignment_or_call(b, ps) ==
    LET var_name == ps.tok.lexeme
        Assigned(expr) ==
            IF expr.ps.out # "ok"
            THEN expr
            ELSE Parsed(AssignmentStatement(var_name, expr.node), expr.ps)
        Invoked(list) ==
            IF list.ps.out # "ok"
            THEN Failed(list.ps, list.ps.out)
            ELSE Parsed(AssignmentStatement(CallTarget(var_name),
                                            Call(var_name, list.args)),
                        list.ps)
        Named(p1) ==
            IF p1.out # "ok"
            THEN Failed(p1, p1.out)
            ELSE IF p1.tok.lexeme = <<"=">>
            THEN Assigned(
                Parser("parse_expression", b,
                       Parser("get_token", b, p1, <<>>), <<>>))
            ELSE IF p1.tok.lexeme = <<"(">>
            THEN Invoked(
                Parser("parse_argument_call_list", b,
                       Parser("get_token", b, p1, <<>>), <<>>))
            ELSE Failed(p1, "ParseLogic")
    IN  Named(Parser("get_token", b, ps, <<>>))

\* Parser::parse_fr_ong_justlikethat; the current token is the IF word
parse_fr_ong_justlikethat(b, ps) ==
    LET Otherwise(condition, then_stmt, else_stmt) ==
            IF else_stmt.ps.out # "ok"
            THEN Failed(else_stmt.ps, else_stmt.ps.out)
            ELSE Parsed(FrOngJustLikeThatStatement(condition, then_stmt,
                                                   else_stmt.node),
                        else_stmt.ps)
        Then(condition, then_stmt) ==
            IF then_stmt.ps.out # "ok"
            THEN Failed(then_stmt.ps, then_stmt.ps.out)
            ELSE IF then_stmt.ps.tok.kind # "ELSE"
            THEN Parsed(FrOngJustLikeThatStatement(condition, then_stmt.node,
                                                   EmptyElse),
                        then_stmt.ps)
            ELSE Otherwise(condition, then_stmt.node,
                     Parser("parse_statement", b,
                            Parser("get_token", b, then_stmt.ps, <<>>),
                            <<>>))
        If(condition) ==
            IF condition.ps.out # "ok"
            THEN condition
            ELSE Then(condition.node,
                Parser("parse_curly_compound", b,
                       condition.ps, <<>>))
    IN  If(
        Parser("parse_expression", b,
               Parser("get_token", b, ps, <<>>), <<>>))

\* Parser::parse_holdup; the current token is the WHILE word
parse_holdup(b, ps) ==
    LET Body(condition, body) ==
            IF body.ps.out # "ok"
            THEN Failed(body.ps, body.ps.out)
            ELSE Parsed(HoldUpStatement(condition, body.node), body.ps)
        While(condition) ==
            IF condition.ps.out # "ok"
            THEN condition
            ELSE Body(condition.node,
                Parser("parse_curly_compound", b,
                       condition.ps, <<>>))
    IN  While(
        Parser("parse_expression", b,
               Parser("get_token", b, ps, <<>>), <<>>))

\* a parse_ghost that leaves the ghost token where it is
parse_ghost_Stays(b, ps) ==
    Parsed(GhostStatement, ps)

\* Parser::parse_ghost
parse_ghost(b, ps) ==
    LET Gone(p1) ==
            IF p1.out # "ok"
            THEN Failed(p1, p1.out)
            ELSE Parsed(GhostStatement, p1)
    IN  Gone(Parser("get_token", b, ps, <<>>))

\* Parser::parse_rizz
parse_rizz(b, ps) ==
    LET Gone(p1) ==
            IF p1.out # "ok"
            THEN Failed(p1, p1.out)
            ELSE Parsed(RizzStatement, p1)
    IN  Gone(Parser("get_token", b, ps, <<>>))

\* Parser::parse_yeet; the current token is the RETURN word
parse_yeet(b, ps) ==
    LET Yeeted(expr) ==
            IF expr.ps.out # "ok"
            THEN expr
            ELSE Parsed(YeetStatement(expr.node), expr.ps)
    IN  Yeeted(
        Parser("parse_expression", b,
               Parser("get_token", b, ps, <<>>), <<>>))

\* the while (current_token.second != "}") of parse_curly_compound:
\* [statements, ps]
StatementLoop(b, ps, statements) ==
    LET Pushed(statement) ==
            IF statement.ps.out # "ok"
            THEN [statements |-> statements, ps |-> statement.ps]
            ELSE StatementLoop(b, statement.ps,
                               Append(statements, statement.node))
    IN  IF ps.out # "ok" \/ ps.tok.lexeme = <<"}">>
        THEN [statements |-> statements, ps |-> ps]
        ELSE Pushed(Parser("parse_statement", b, ps, <<>>))

\* Parser::parse_curly_compound: [node, ps, returntype].  The current
\* token is consumed whatever it is.
parse_curly_compound(b, ps) ==
    LET After(statements, p1) ==
            IF p1.out # "ok"
            THEN Exited(p1)
            ELSE [node |-> CompoundStatement(statements), ps |-> p1,
                  returntype |-> ReturnTypeOf(statements)]
        Closed(r) ==
            IF r.ps.out # "ok"
            THEN Exited(r.ps)
            ELSE After(r.statements, Parser("get_token", b, r.ps, <<>>))
    IN  IF ps.out # "ok"
        THEN Exited(ps)
        ELSE Closed(StatementLoop(b, Parser("get_token", b, ps, <<>>), <<>>))

\* the node and state of a block, without its returntype
Block(r) ==
    [node |-> r.node, ps |-> r.ps]

\* Parser::parse_statement
parse_statement(b, ps) ==
    CASE ps.out # "ok" -> Failed(ps, ps.out)
      [] ps.out = "ok" /\ ps.tok.kind = "LET" ->
            parse_cookup_or_cookupassign(b, ps)
      [] ps.out = "ok" /\ ps.tok.kind = "IDENTIFIER" ->
            parse_assignment_or_call(b, ps)
      [] ps.out = "ok" /\ ps.tok.kind = "IF" ->
            parse_fr_ong_justlikethat(b, ps)
      [] ps.out = "ok" /\ ps.tok.kind = "WHILE" -> parse_holdup(b, ps)
      [] ps.out = "ok" /\ ps.tok.kind = "BREAK" -> parse_ghost(b, ps)
      [] ps.out = "ok" /\ ps.tok.kind = "CONTINUE" -> parse_rizz(b, ps)
      [] ps.out = "ok" /\ ps.tok.kind = "RETURN" -> parse_yeet(b, ps)
      [] ps.out = "ok" /\ ps.tok.kind = "COMPLEX" ->
            Block(Parser("parse_curly_compound", b, ps, <<>>))
      [] OTHER -> Failed(ps, "ParseLogic")

(***************************************************************************)
(* The Parser: prototypes, declarations and the module root.               *)
(***************************************************************************)
Argument(var_name, type_name) ==
    <<var_name, type_name>>

Prototype(name, arguments, return_type) ==
    [type |-> "Prototype", name |-> name, arguments |-> arguments,
     return_type |-> return_type]

NoBody ==
    [type |-> "None"]

\* PluhDeclaration::PluhDeclaration(Prototype p, Statement function_body)
PluhDeclaration(p, function_body) ==
    [type |-> "PluhDeclaration", p |-> p, body |-> function_body]

\* A Prototype object that was never constructed, as the storage of the
\* member p is when its own initialiser reads it: what the bytes happen to
\* hold, or bytes that cannot be moved from at all.
Unconstructed ==
    {[fault |-> FALSE, p |-> Prototype(<<>>, <<>>, <<>>)],
     [fault |-> FALSE, p |-> Prototype(<<"?">>, <<>>, <<"?">>)],
     [fault |-> TRUE, p |-> Prototype(<<>>, <<>>, <<>>)]}

\* PluhDeclaration::PluhDeclaration(Prototype proto): p(std::move(p)) moves
\* the member from itself, the parameter proto is not read; self is what
\* the member held
PluhDeclarationWithoutBody(proto, self) ==
    [type |-> "PluhDeclaration", p |-> self.p, body |-> NoBody]

TeaSpill(name, declarations) ==
    [type |-> "TeaSpill", name |-> name, declarations |-> declarations]

RECURSIVE ArgumentNames(_, _, _)
\* the while of parse_prototype; ps holds "(" or ",": [arguments, ps]
ArgumentNames(b, ps, argument_names) ==
    LET More(names, p4) ==
            IF p4.out = "ok" /\ p4.tok.lexeme = <<",">>
            THEN ArgumentNames(b, p4, names)
            ELSE [arguments |-> names, ps |-> p4]
        \* p3 holds the type name
        Typed(var_name, p3) ==
            More(Append(argument_names, Argument(var_name, p3.tok.lexeme)),
                 Parser("get_token", b, p3, <<>>))
        \* p2 holds the token after the argument name
        Colon(var_name, p2) ==
            IF p2.out # "ok"
            THEN [arguments |-> argument_names, ps |-> p2]
            ELSE IF p2.tok.lexeme # <<":">>
            THEN [arguments |-> argument_names,
                  ps |-> [p2 EXCEPT !.out = "ParseLogic"]]
            ELSE Typed(var_name, Parser("get_token", b, p2, <<>>))
        Name(p1) ==
            IF p1.out # "ok" \/ p1.tok.kind # "IDENTIFIER"
            THEN [arguments |-> argument_names, ps |-> p1]
            ELSE Colon(p1.tok.lexeme, Parser("get_token", b, p1, <<>>))
    IN  Name(Parser("get_token", b, ps, <<>>))

\* Parser::parse_prototype
parse_prototype(b, ps) ==
    LET \* p6 holds the return type
        Returning(func_name, arguments, p6) ==
            Parsed(Prototype(func_name, arguments, p6.tok.lexeme),
                   Parser("get_token", b, p6, <<>>))
        \* p5 holds the token after ")"
        Result_(func_name, arguments, p5) ==
            IF p5.out # "ok"
            THEN Failed(p5, p5.out)
            ELSE IF p5.tok.lexeme # <<":">>
            THEN Failed(p5, "ParseLogic")
            ELSE Returning(func_name, arguments,
                Parser("get_token", b,
                       p5, <<>>))
        Listed(func_name, r) ==
            IF r.ps.out # "ok"
            THEN Failed(r.ps, r.ps.out)
            ELSE IF r.ps.tok.lexeme # <<")">>
            THEN Failed(r.ps, "ParseLogic")
            ELSE Result_(func_name, r.arguments,
                Parser("get_token", b,
                       r.ps, <<>>))
        Opened(func_name, p1) ==
            IF p1.out # "ok"
            THEN Failed(p1, p1.out)
            ELSE IF p1.tok.lexeme # <<"(">>
            THEN Failed(p1, "ParseLogic")
            ELSE Listed(func_name, ArgumentNames(b, p1, <<>>))
    IN  IF ps.out # "ok"
        THEN Failed(ps, ps.out)
        ELSE IF ps.tok.kind # "IDENTIFIER"
        THEN Failed(ps, "ParseLogic")
        ELSE Opened(ps.tok.lexeme, Parser("get_token", b, ps, <<>>))

\* the return types parse_pluh refuses to match
Mismatch(expected_returntype, actual_returntype) ==
    \/ expected_returntype # <<"n", "p", "c">> /\ actual_returntype = "npc"
    \/ expected_returntype = <<"n", "p", "c">> /\ actual_returntype = "nonnpc"

\* Parser::parse_pluh; the current token is the DEF word
parse_pluh(b, ps) ==
    LET Checked(proto, stmt) ==
            IF stmt.ps.out # "ok"
            THEN Failed(stmt.ps, stmt.ps.out)
            ELSE IF Mismatch(proto.return_type, stmt.returntype)
            THEN Failed(stmt.ps, "ParseLogic")
            ELSE Parsed(PluhDeclaration(proto, stmt.node), stmt.ps)
        Body(proto) ==
            IF proto.ps.out # "ok"
            THEN proto
            ELSE Checked(proto.node,
                Parser("parse_curly_compound", b,
                       proto.ps, <<>>))
    IN  Body(
        Parser("parse_prototype", b,
               Parser("get_token", b, ps, <<>>), <<>>))

\* Parser::parse_plug; the current token is the EXTERN word
parse_plug(b, ps, self) ==
    LET External(proto) ==
            IF proto.ps.out # "ok"
            THEN proto
            ELSE IF self.fault
            THEN Failed(proto.ps, "fault")
            ELSE Parsed(PluhDeclarationWithoutBody(proto.node, self),
                        proto.ps)
    IN  External(
        Parser("parse_prototype", b,
               Parser("get_token", b, ps, <<>>), <<>>))

RECURSIVE DeclarationLoop(_, _, _, _)
\* the while (true) of parse_declarations: [declarations, ps]
DeclarationLoop(b, ps, self, declarations) ==
    LET Pushed(declaration) ==
            IF declaration.ps.out # "ok"
            THEN [declarations |-> declarations, ps |-> declaration.ps]
            ELSE DeclarationLoop(b, declaration.ps, self,
                                 Append(declarations, declaration.node))
    IN  CASE ps.out # "ok" -> [declarations |-> declarations, ps |-> ps]
          [] ps.out = "ok" /\ ps.tok.kind = "DEF" ->
                Pushed(parse_pluh(b, ps))
          [] ps.out = "ok" /\ ps.tok.kind = "EXTERN" ->
                Pushed(parse_plug(b, ps, self))
          [] ps.out = "ok" /\ ps.tok.kind = "END_OF_FILE" ->
                [declarations |-> declarations, ps |-> ps]
          [] OTHER -> [declarations |-> declarations,
                       ps |-> [ps EXCEPT !.out = "ParseLogic"]]

\* Parser::parse_declarations
parse_declarations(b, ps, self) ==
    DeclarationLoop(b, ps, self, <<>>)

\* Parser::parse_tea
parse_tea(b, ps, self) ==
    LET Spilled(name, decls) ==
            IF decls.ps.out # "ok"
            THEN Failed(decls.ps, decls.ps.out)
            ELSE Parsed(TeaSpill(name, decls.declarations), decls.ps)
        \* p1 holds the name
        Named(p1) ==
            Spilled(p1.tok.lexeme,
                    parse_declarations(b,
                                       Parser("get_token", b, p1, <<>>),
                                       self))
    IN  IF ps.out # "ok"
        THEN Failed(ps, ps.out)
        ELSE IF ps.tok.kind # "PROGRAM"
        THEN Failed(ps, "ParseLogic")
        ELSE Named(Parser("get_token", b, ps, <<>>))

\* the member functions of class Parser, by name
Parser(routine, b, ps, x) ==
    CASE routine = "get_token" -> NextToken(b, ps)
      [] routine = "parse_expression" -> parse_expression(b, ps)
      [] routine = "parse_argument_call_list" ->
            parse_argument_call_list(b, ps)
      [] routine = "parse_statement" -> parse_statement(b, ps)
      [] routine = "parse_curly_compound" -> parse_curly_compound(b, ps)
      [] routine = "parse_prototype" -> parse_prototype(b, ps)
      [] routine = "parse_tea" -> parse_tea(b, ps, x)

(***************************************************************************)
(* The Parser driven on an expression.                                     *)
(***************************************************************************)
MaxOps ==
    3

BinOps ==
    {<<"+">>, <<"-">>, <<"*">>, <<"/">>, <<"%">>, <<"<">>, <<"<", "=">>,
     <<">">>, <<">", "=">>, <<"=", "=">>, <<"!", "=">>}

AtomTexts ==
    <<"a", "1", "b", "2", "c", "3">>

\* the text  atom op atom op ... atom  of a sequence of operators, the
\* i-th atom being AtomTexts[i]
ChainText(ops) ==
    LET F[i \in 0..Len(ops)] ==
            IF i = 0
            THEN <<AtomTexts[1]>>
            ELSE F[i - 1] \o <<" ">> \o ops[i] \o <<" ", AtomTexts[i + 1]>>
    IN  F[Len(ops)]

ChainSources ==
    {ChainText(ops) : ops \in SeqsUpTo(BinOps, MaxOps)}

Src_1_plus_2_times_3 ==
    <<"1", " ", "+", " ", "2", " ", "*", " ", "3">>

Src_a_plus_b_less_c_times_d ==
    <<"a", " ", "+", " ", "b", " ", "<", " ", "c", " ", "*", " ", "d">>

Src_1_minus_2_minus_3 ==
    <<"1", " ", "-", " ", "2", " ", "-", " ", "3">>

\* 1 '+' 2
Src_1_char_plus_2 ==
    <<"1", " ", "'", "+", "'", " ", "2">>

\* "-" a
Src_string_minus_a ==
    <<"\"", "-", "\"", " ", "a">>

TestExpressions ==
    {Src_1_plus_2_times_3, Src_a_plus_b_less_c_times_d,
     Src_1_minus_2_minus_3,
     <<"(", "1", " ", "+", " ", "2", ")", " ", "*", " ", "3">>,
     <<"f", "(", "1", ",", " ", "2", ")", " ", "+", " ", "1">>,
     <<"-", "a", " ", "*", " ", "b">>,
     <<"1", " ", "+", " ", ")">>,
     <<"1", " ", "+">>,
     W_facts, W_cap, Src_1_char_plus_2, Src_string_minus_a,
     <<"1", ".", "5", " ", "+", " ", "f", "a", "c", "t", "s">>,
     <<"'", "a", "'", " ", "+", " ", "\"", "s", "\"">>,
     <<"2", "1", "4", "7", "4", "8", "3", "6", "4", "8", " ", "+", " ", "1">>}

UnaryOps ==
    {<<"+">>, <<"-">>, <<"!">>}

\* a CHAR and a STRING literal
Quoted ==
    {<<"'", "c", "'">>, <<"\"", "s", "\"">>}

\* the other primaries: a variable, a number, a bool, a parenthesised
\* expression and a call
Primaries ==
    {<<"a">>, <<"1">>, W_cap, <<"(", "a", ")">>, <<"f", "(", ")">>}

\* op a binop b
UnaryLeft(op, binop) ==
    op \o <<"a", " ">> \o binop \o <<" ", "b">>

\* a binop op b
UnaryRight(op, binop) ==
    <<"a", " ">> \o binop \o <<" ">> \o op \o <<"b">>

UnarySources ==
    {op \o t : op \in UnaryOps, t \in Quoted \cup Primaries}
        \cup {UnaryLeft(op, binop) : op \in UnaryOps, binop \in BinOps}
        \cup {UnaryRight(op, binop) : op \in UnaryOps, binop \in BinOps}

ExpressionSources ==
    ChainSources \cup TestExpressions \cup UnarySources

InitParse ==
    /\ \E src \in ExpressionSources : LexerInit(src, src)
    /\ current_token = NoToken
    /\ ast = NoAst
    /\ phase = "new"
    /\ NoCommandLine

\* a process that goes on running whatever the routine reported
Outcome_Running(out) ==
    "running"

Outcome(out) ==
    IF out = "ok" THEN "running" ELSE out

\* Parser::Parser: the Lexer is built and the first token fetched
ParserConstruct ==
    /\ phase = "new"
    /\ outcome = "running"
    /\ LET Fetched(r, tail) ==
               /\ current_token' = r.tok
               /\ current_char' = r.s.cc
               /\ it' = r.s.it
               /\ mem' = IF r.out = "fault"
                         THEN tail
                         ELSE Overread(code, tail, r.s.it)
               /\ lastStart' = r.start
               /\ outcome' = Outcome(r.out)
       IN  \E tail \in TailsToTry :
               Fetched(get_token(Buffer(code, tail), Cursor), tail)
    /\ phase' = "ready"
    /\ UNCHANGED mainVars
    /\ UNCHANGED <<code, plain, tokens, starts, ast>>

ParserState ==
    [s |-> Cursor, tok |-> current_token, out |-> "ok"]

ParseTails ==
    IF parse_expression(Buffer(code, mem), ParserState).ps.out # "fault"
    THEN {mem}
    ELSE {tail \in Tails : IsPrefix(mem, tail)}

\* a call of Parser::parse_expression
ParseExpression ==
    /\ phase = "ready"
    /\ outcome = "running"
    /\ LET Parses(r, tail) ==
               /\ ast' = IF r.ps.out = "ok" THEN r.node ELSE NoAst
               /\ current_token' = r.ps.tok
               /\ current_char' = r.ps.s.cc
               /\ it' = r.ps.s.it
               /\ mem' = IF r.ps.out = "fault"
                         THEN tail
                         ELSE Overread(code, tail, r.ps.s.it)
               /\ outcome' = Outcome(r.ps.out)
       IN  \E tail \in ParseTails :
               Parses(parse_expression(Buffer(code, tail), ParserState), tail)
    /\ phase' = "done"
    /\ UNCHANGED mainVars
    /\ UNCHANGED <<code, plain, tokens, starts, lastStart>>

NextParse ==
    \/ ParserConstruct
    \/ ParseExpression

SpecParse ==
    InitParse /\ [][NextParse]_vars

(***************************************************************************)
(* The Parser driven on a module, as Slang::Slang drives it: parse_tea.     *)
(***************************************************************************)
MaxStatements ==
    2

MaxDecls ==
    2

MaxArgs ==
    2

N_demo ==
    <<"d", "e", "m", "o">>

N_main ==
    <<"m", "a", "i", "n">>

N_func ==
    <<"f", "u", "n", "c">>

N_yap ==
    <<"y", "a", "p">>

N_hello ==
    <<"h", "e", "l", "l", "o">>

N_int ==
    <<"i", "n", "t">>

N_bool ==
    <<"b", "o", "o", "l">>

N_npc ==
    <<"n", "p", "c">>

RECURSIVE Join(_)
\* the words with one blank between them
Join(words) ==
    IF words = <<>>
    THEN <<>>
    ELSE IF Len(words) = 1
    THEN words[1]
    ELSE words[1] \o <<" ">> \o Join(Tail(words))

St_periodt ==
    Join(<<W_periodt, <<"0">>>>)

St_yeet ==
    Join(<<W_yeet, <<"0">>>>)

St_assign ==
    Join(<< <<"x">>, <<"=">>, <<"1">> >>)

St_call ==
    N_yap \o <<"(", "1", " ", "+", " ", "2", ")">>

St_call_none ==
    N_yap \o <<"(", ")">>

St_call_two ==
    N_yap \o <<"(", "a", ",", " ", "2", ")">>

St_cookUp ==
    Join(<<W_cookUp, N_hello, <<":">>, N_int>>)

St_cookUp_assign ==
    Join(<<W_cookUp, N_hello, <<":">>, N_int, <<"=">>,
           <<"1", "3", "3", "7">>>>)

St_cookUp_numbers ==
    Join(<<W_cookUp, <<"1">>, <<"2">>, <<"3">>>>)

St_cookUp_no_colon ==
    Join(<<W_cookUp, N_hello, <<"=">>, N_int>>)

St_fr ==
    Join(<<W_fr, <<"a">>, <<"{">>, St_assign, <<"}">>>>)

St_fr_periodt ==
    Join(<<W_fr, <<"a">>, <<"{">>, St_periodt, <<"}">>>>)

St_fr_justLikeThat ==
    Join(<<St_fr, W_justLikeThat, <<"{">>, W_rizz, <<"}">>>>)

St_fr_ong ==
    Join(<<W_fr, <<"a">>, <<"{">>, W_ghost, <<"}">>,
           W_ong, <<"b">>, <<"{">>, W_rizz, <<"}">>,
           W_justLikeThat, <<"{">>, St_assign, <<"}">>>>)

St_fr_justLikeThat_fr ==
    Join(<<W_fr, <<"a">>, <<"{">>, W_ghost, <<"}">>,
           W_justLikeThat, W_fr, <<"b">>, <<"{">>, W_rizz, <<"}">>,
           W_justLikeThat, <<"{">>, St_assign, <<"}">>>>)

St_holdUp ==
    Join(<<W_holdUp, <<"a">>, <<"{">>, W_ghost, <<"}">>>>)

St_curly ==
    Join(<< <<"{">>, St_assign, <<"}">> >>)

\* the statements the bodies are made of
BodyStatements ==
    {St_periodt, St_yeet, W_ghost, St_assign, St_call, St_cookUp,
     St_cookUp_assign, St_fr, St_fr_periodt, St_fr_justLikeThat, St_holdUp,
     St_curly}

\* statements that stand alone in a body
\* what follows an identifier at the start of a statement, "=" and "("
\* apart
OtherNext ==
    {<<"1">>, <<"=", "=">>, <<"x">>, <<")">>, <<"+">>, <<":">>, <<"{">>}

\* an identifier and another token after it
IdentifierThen ==
    {Join(<< <<"x">>, t >>) : t \in OtherNext}

\* statements that stand alone in a body
LoneStatements ==
    {St_call_none, St_call_two, St_cookUp_numbers, St_cookUp_no_colon,
     St_fr_ong, St_fr_justLikeThat_fr, W_rizz} \cup IdentifierThen

Bodies ==
    SeqsUpTo(BodyStatements, MaxStatements)
        \cup {<<st>> : st \in LoneStatements}

ReturnTypes ==
    {N_int, N_bool, N_npc}

Header ==
    Join(<<W_spillingTheTeaAbout, N_demo>>)

\* pluh name() : return_type { body }
PluhText(name, return_type, body) ==
    Join(<<W_pluh, name \o <<"(", ")">>, <<":">>, return_type, <<"{">>>>
             \o body \o << <<"}">> >>)

FunctionText(return_type, body) ==
    Join(<<Header, PluhText(N_main, return_type, body)>>)

FunctionSources ==
    {FunctionText(return_type, body) :
        return_type \in ReturnTypes, body \in Bodies}

ArgumentPairs ==
    {<< <<"x">>, N_int >>, << <<"y">>, N_bool >>}

RECURSIVE ArgumentsText(_)
\* name : type, name : type
ArgumentsText(arguments) ==
    IF arguments = <<>>
    THEN <<>>
    ELSE LET last == arguments[Len(arguments)]
             one == Join(<<last[1], <<":">>, last[2]>>)
         IN  IF Len(arguments) = 1
             THEN one
             ELSE ArgumentsText(SubSeq(arguments, 1, Len(arguments) - 1))
                      \o <<",", " ">> \o one

\* plug name(arguments) : return_type
PlugText(name, arguments, return_type) ==
    Join(<<W_plug,
           name \o <<"(">> \o ArgumentsText(arguments) \o <<")">>,
           <<":">>, return_type>>)

PlugSources ==
    {Join(<<Header, PlugText(N_func, arguments, return_type)>>) :
        arguments \in SeqsUpTo(ArgumentPairs, MaxArgs),
        return_type \in ReturnTypes}

D_f ==
    PluhText(<<"f">>, N_npc, <<>>)

D_g ==
    PluhText(<<"g">>, N_int, <<St_periodt>>)

D_h ==
    PlugText(<<"h">>, <<>>, N_npc)

Declarations ==
    {D_f, D_g, D_h}

DeclarationSources ==
    {Join(<<Header>> \o decls) : decls \in SeqsUpTo(Declarations, MaxDecls)}

Src_no_program ==
    D_f

Src_number_name ==
    Join(<<W_spillingTheTeaAbout, <<"1">>, D_f>>)

Src_no_name ==
    W_spillingTheTeaAbout

Src_statement_at_root ==
    Join(<<Header, St_assign>>)

Src_after_declaration ==
    Join(<<Header, D_f, <<"}">>>>)

\* main() : npc whose one statement is  ( ghost }
Src_round_opens ==
    FunctionText(N_npc, <<Join(<< <<"(">>, W_ghost, <<"}">> >>)>>)

\* main() : npc whose one statement is  fr? a ghost rizz }
Src_fr_no_brace ==
    FunctionText(N_npc, <<Join(<<W_fr, <<"a">>, W_ghost, W_rizz, <<"}">>>>)>>)

\* main() : npc whose one statement is  holdUp a ghost rizz }
Src_holdUp_no_brace ==
    FunctionText(N_npc,
                 <<Join(<<W_holdUp, <<"a">>, W_ghost, W_rizz, <<"}">>>>)>>)

\* pluh main() : npc ghost rizz }
Src_pluh_no_brace ==
    Join(<<Header, W_pluh, N_main \o <<"(", ")">>, <<":">>, N_npc,
           W_ghost, W_rizz, <<"}">>>>)

NoBraceSources ==
    {Src_round_opens, Src_fr_no_brace, Src_holdUp_no_brace, Src_pluh_no_brace}

TeaTests ==
    NoBraceSources \cup
    {Src_no_program, Src_number_name, Src_no_name, Src_statement_at_root,
     Src_after_declaration,
     Join(<<Header, <<"'", "a">>>>),
     Join(<<Header, W_pluh, <<"1">>>>),
     Join(<<Header, W_pluh, N_main, <<"{">>>>),
     Join(<<Header, W_pluh, N_main \o <<"(", "x", ")">>>>),
     Join(<<Header, W_pluh, N_main \o <<"(", ")">>, <<"{">>, <<"}">>>>),
     Join(<<Header, W_pluh, N_main \o <<"(", ")">>, <<":">>, N_int,
            <<"{">>, <<"x">>, <<"=">>>>)}

TeaSources ==
    FunctionSources \cup PlugSources \cup DeclarationSources \cup TeaTests

InitTea ==
    /\ \E src \in TeaSources : LexerInit(src, src)
    /\ current_token = NoToken
    /\ ast = NoAst
    /\ phase = "new"
    /\ NoCommandLine

\* the memory images a call of parse_tea is tried on
TeaTails ==
    IF Parser("parse_tea", Buffer(code, mem), ParserState,
              CHOOSE self \in Unconstructed : ~self.fault).ps.out # "fault"
    THEN {mem}
    ELSE {tail \in Tails : IsPrefix(mem, tail)}

\* a call of Parser::parse_tea
ParseTea ==
    /\ phase = "ready"
    /\ outcome = "running"
    /\ LET Parses(r, tail) ==
               /\ ast' = IF r.ps.out = "ok" THEN r.node ELSE NoAst
               /\ current_token' = r.ps.tok
               /\ current_char' = r.ps.s.cc
               /\ it' = r.ps.s.it
               /\ mem' = IF r.ps.out = "fault"
                         THEN tail
                         ELSE Overread(code, tail, r.ps.s.it)
               /\ outcome' = Outcome(r.ps.out)
       IN  \E tail \in TeaTails, self \in Unconstructed :
               Parses(Parser("parse_tea", Buffer(code, tail), ParserState,
                             self), tail)
    /\ phase' = "done"
    /\ UNCHANGED mainVars
    /\ UNCHANGED <<code, plain, tokens, starts, lastStart>>

NextTea ==
    \/ ParserConstruct
    \/ ParseTea

SpecTea ==
    InitTea /\ [][NextTea]_vars

\* the step that takes a running process to its next phase
Proceeds ==
    /\ outcome = "running"
    /\ phase \in {"new", "ready"}
    /\ phase' \in {"ready", "done"}
    /\ phase' # phase

\* Slang::Slang runs the constructor of the Parser and then parse_tea, one
\* after the other in the one thread of the process: a process that can go
\* on does
SpecTeaFair ==
    SpecTea /\ WF_phase(Proceeds)

(***************************************************************************)
(* The command line, as main (src/app/main.cpp) processes it.  An argument *)
(* is a sequence of bytes; argv holds argv[1] .. argv[argc - 1], so that   *)
(* argv[i] is the argument the loop reads at index i.                      *)
(***************************************************************************)
MaxArgc ==
    4

W_r ==
    <<"-", "r">>

Arguments ==
    {W_r, <<"-", "h">>, <<"-", "v">>, <<"-", "e">>, <<"-", "v", "e">>,
     <<"-", "x">>, <<"-">>, <<>>, <<"a">>, <<"o">>}

\* what the file at file_path may hold
FileContents ==
    TeaTests

argc ==
    Len(argv) + 1

\* std::string::operator[]: the byte at position n, the terminator at the
\* end of the string
CharAt(arg, n) ==
    IF n < Len(arg) THEN arg[n + 1] ELSE NUL

RECURSIVE process_single_flags_SkipsUnknown(_, _)
\* a loop that takes no notice of a letter it does not know
process_single_flags_SkipsUnknown(flags, st) ==
    IF flags = <<>>
    THEN st
    ELSE CASE Head(flags) = "h" -> [st EXCEPT !.usage = TRUE]
           [] Head(flags) = "v" ->
                  process_single_flags_SkipsUnknown(
                      Tail(flags), [st EXCEPT !.debug_mode = TRUE])
           [] Head(flags) = "e" ->
                  process_single_flags_SkipsUnknown(
                      Tail(flags), [st EXCEPT !.print_IR = TRUE])
           [] OTHER ->
                  process_single_flags_SkipsUnknown(Tail(flags), st)

RECURSIVE process_single_flags(_, _)
\* process_single_flags on st = [print_IR, debug_mode, usage]; usage() does
\* not return
process_single_flags(flags, st) ==
    IF flags = <<>>
    THEN st
    ELSE CASE Head(flags) = "h" -> [st EXCEPT !.usage = TRUE]
           [] Head(flags) = "v" ->
                  process_single_flags(Tail(flags),
                                       [st EXCEPT !.debug_mode = TRUE])
           [] Head(flags) = "e" ->
                  process_single_flags(Tail(flags),
                                       [st EXCEPT !.print_IR = TRUE])
           [] OTHER -> [st EXCEPT !.usage = TRUE]

InitMain ==
    /\ LexerInit(<<>>, <<>>)
    /\ current_token = NoToken
    /\ ast = NoAst
    /\ phase = "main"
    /\ argv \in SeqsUpTo(Arguments, MaxArgc - 1)
    /\ MainLocals

\* usage(): the help text and exit(1)
Usage ==
    /\ outcome' = "Usage"
    /\ phase' = "exit"

\* main up to the loop
Main ==
    /\ phase = "main"
    /\ IF argc < 2
       THEN Usage
       ELSE phase' = "arguments" /\ UNCHANGED outcome
    /\ UNCHANGED mainVars
    /\ UNCHANGED <<code, plain, current_char, it, mem, tokens, starts,
                   lastStart, current_token, ast>>

\* one iteration of the loop over the arguments
ProcessArgument ==
    /\ phase = "arguments"
    /\ arg_i < argc
    /\ LET arg == argv[arg_i]
           Flags(st) ==
               /\ emit_IR' = st.print_IR
               /\ debug_mode' = st.debug_mode
               /\ IF st.usage
                  THEN Usage /\ UNCHANGED arg_i
                  ELSE arg_i' = arg_i + 1 /\ UNCHANGED <<outcome, phase>>
               /\ UNCHANGED <<file_path, file_path_set, filename>>
       IN  IF CharAt(arg, 0) = "-"
           THEN IF arg = W_r
                THEN IF arg_i + 1 < argc
                     THEN /\ filename' = argv[arg_i + 1]
                          /\ arg_i' = arg_i + 2
                          /\ UNCHANGED <<outcome, phase, file_path,
                                         file_path_set, emit_IR, debug_mode>>
                     ELSE /\ Usage
                          /\ UNCHANGED mainVars
                ELSE Flags(process_single_flags(
                               Tail(arg),
                               [print_IR |-> emit_IR,
                                debug_mode |-> debug_mode,
                                usage |-> FALSE]))
           ELSE IF ~file_path_set
                THEN /\ file_path' = arg
                     /\ file_path_set' = TRUE
                     /\ arg_i' = arg_i + 1
                     /\ UNCHANGED <<outcome, phase, emit_IR, filename,
                                    debug_mode>>
                ELSE /\ Usage
                     /\ UNCHANGED mainVars
    /\ UNCHANGED <<argv, code, plain, current_char, it, mem, tokens, starts,
                   lastStart, current_token, ast>>

\* the test of file_path after the loop
EndOfArguments ==
    /\ phase = "arguments"
    /\ ~(arg_i < argc)
    /\ IF file_path = <<>>
       THEN Usage
       ELSE phase' = "process_file" /\ UNCHANGED outcome
    /\ UNCHANGED mainVars
    /\ UNCHANGED <<code, plain, current_char, it, mem, tokens, starts,
                   lastStart, current_token, ast>>

\* content = process_file(file_path): the file opens and is read, or the
\* process exits
ProcessFile ==
    /\ phase = "process_file"
    /\ \/ /\ \E content \in FileContents : code' = content /\ plain' = content
          /\ phase' = "Slang"
          /\ UNCHANGED outcome
       \/ /\ outcome' = "ProcessFile"
          /\ phase' = "exit"
          /\ UNCHANGED <<code, plain>>
    /\ UNCHANGED mainVars
    /\ UNCHANGED <<current_char, it, mem, tokens, starts, lastStart,
                   current_token, ast>>

NextMain ==
    \/ Main
    \/ ProcessArgument
    \/ EndOfArguments
    \/ ProcessFile

SpecMain ==
    InitMain /\ [][NextMain]_vars

(***************************************************************************)
(* Claims about the Lexer.                                                 *)
(***************************************************************************)
RECURSIVE FirstTokens(_, _, _, _)
\* what the first n calls of get_token return on the buffer b
FirstTokens(b, s, n, acc) ==
    IF n = 0
    THEN acc
    ELSE LET r == get_token(b, s)
         IN  IF r.out # "ok"
             THEN Append(acc, Token(r.out, <<>>))
             ELSE FirstTokens(b, r.s, n - 1, Append(acc, r.tok))

FreshCursor ==
    [cc |-> " ", it |-> 1, fault |-> FALSE]

Called ==
    phase = "lex" /\ lastStart > 0

\* C1: on a source without a malformed literal every call returns a token,
\* the tokens are the same whatever lies after the terminator, END_OF_FILE
\* comes within Len(code) + 1 calls and every call after it returns it again.
C1_TotalDeterministic ==
    (phase = "lex" /\ outcome # "InvalidLiteral") =>
        /\ outcome = "running"
        /\ \A tail \in Tails :
            FirstTokens(Buffer(code, tail), FreshCursor, Len(tokens), <<>>)
                = tokens
        /\ Len(tokens) > Len(code) => tokens[Len(tokens)] = EndOfFile
        /\ \A i, j \in DOMAIN tokens :
            (i < j /\ tokens[i] = EndOfFile) => tokens[j] = EndOfFile

HasPrefix(s, w) ==
    Len(s) >= Len(w) /\ SubSeq(s, 1, Len(w)) = w

Count(s, c) ==
    Cardinality({i \in DOMAIN s : s[i] = c})

IsIdentifierText(s) ==
    /\ Len(s) >= 1
    /\ s[1] \in Letters
    /\ \A i \in DOMAIN s : s[i] \in IdChars
    /\ s \notin Keywords
    /\ ~HasPrefix(s, Cancelled)
    /\ ~HasPrefix(s, Blocked)

IsIntText(s) ==
    Len(s) >= 1 /\ \A i \in DOMAIN s : s[i] \in Digits

IsFloatText(s) ==
    /\ \A i \in DOMAIN s : s[i] \in Digits \cup {"."}
    /\ Count(s, ".") = 1
    /\ \E i \in DOMAIN s : s[i] \in Digits

IsStringText(s) ==
    /\ Len(s) >= 2
    /\ s[1] = "\""
    /\ s[Len(s)] = "\""
    /\ \A i \in 2..(Len(s) - 1) : s[i] # "\""

IsLiteralText(s) ==
    IsIdentifierText(s) \/ IsIntText(s) \/ IsFloatText(s) \/ IsStringText(s)

Unquoted(s) ==
    IF IsStringText(s) THEN SubSeq(s, 2, Len(s) - 1) ELSE s

\* C2: a source that is exactly one identifier, integer, float or string
\* literal gives one token with that lexeme (the quotes stripped) and then
\* END_OF_FILE.  Stated for the runs that read nothing after the
\* terminator, so that a violation does not rest on what lies there.
C2_RoundTrip ==
    (phase = "lex" /\ IsLiteralText(code) /\ mem = <<>>) =>
        /\ outcome # "InvalidLiteral"
        /\ Len(tokens) >= 1 => tokens[1].lexeme = Unquoted(code)
        /\ Len(tokens) >= 2 => tokens[2] = EndOfFile

Finished ==
    \/ outcome # "running"
    \/ Len(tokens) >= 1 /\ tokens[Len(tokens)] = EndOfFile

RECURSIVE UpToEof(_)
\* a token sequence without what follows its first END_OF_FILE
UpToEof(ts) ==
    IF ts = <<>>
    THEN <<>>
    ELSE IF Head(ts) = EndOfFile
    THEN <<EndOfFile>>
    ELSE <<Head(ts)>> \o UpToEof(Tail(ts))

\* C3: a source with a comment inserted between two of its tokens gives the
\* tokens of the source without the comment.
C3_CommentInvariance ==
    (phase = "lex" /\ code # plain /\ Finished) =>
        /\ outcome = "running"
        /\ UpToEof(tokens)
            = UpToEof(FirstTokens(Buffer(plain, <<>>), FreshCursor,
                                  Len(plain) + 1, <<>>))

FoldOps ==
    {"<", ">", "=", "!"}

\* C4: one of < > = ! directly followed by = gives one OPERATOR token of
\* the two bytes; with whitespace between them, two OPERATOR tokens of one
\* byte each.
C4_OperatorFolding ==
    phase = "lex" =>
        \A i \in DOMAIN tokens :
            LET p == starts[i]
            IN  /\ (/\ p >= 1
                    /\ p + 1 <= Len(code)
                    /\ code[p] \in FoldOps
                    /\ code[p + 1] = "=")
                    => tokens[i] = Token("OPERATOR", <<code[p], "=">>)
                /\ (/\ p >= 1
                    /\ p + 2 <= Len(code)
                    /\ code[p] \in FoldOps
                    /\ code[p + 1] \in Space
                    /\ code[p + 2] = "="
                    /\ (p + 3 <= Len(code) => code[p + 3] # "=")
                    /\ i + 1 \in DOMAIN tokens)
                    => /\ tokens[i] = Token("OPERATOR", <<code[p]>>)
                       /\ tokens[i + 1] = Token("OPERATOR", <<"=">>)

\* C5: an OPERATOR token that starts with + - * / or % is that one byte.
C5_NoExtension ==
    phase = "lex" =>
        \A i \in DOMAIN tokens :
            (/\ tokens[i].kind = "OPERATOR"
             /\ tokens[i].lexeme[1] \in {"+", "-", "*", "/", "%"})
                => Len(tokens[i].lexeme) = 1

RECURSIVE RunEnd(_, _, _)
\* the last position of the run of bytes of the class S that starts at p
RunEnd(s, p, S) ==
    IF p + 1 <= Len(s) /\ s[p + 1] \in S
    THEN RunEnd(s, p + 1, S)
    ELSE p

Run(s, p, S) ==
    SubSeq(s, p, RunEnd(s, p, S))

MalformedNumberAt(p) ==
    /\ p >= 1
    /\ p <= Len(code)
    /\ code[p] \in Digits \cup {"."}
    /\ Count(Run(code, p, Digits \cup {"."}), ".") >= 2

BadCharAt(p) ==
    /\ p >= 1
    /\ p + 1 <= Len(code)
    /\ code[p] = "'"
    /\ (p + 2 <= Len(code) => code[p + 2] # "'")

OpenStringAt(p) ==
    /\ p >= 1
    /\ p <= Len(code)
    /\ code[p] = "\""
    /\ \A j \in (p + 1)..Len(code) : code[j] # "\""

C6_WitnessChar ==
    Called /\ BadCharAt(lastStart) /\ outcome = "InvalidLiteral"

C6_WitnessString ==
    Called /\ OpenStringAt(lastStart) /\ outcome = "InvalidLiteral"

C7_Mapping(w) ==
    CASE w = W_pluh -> "DEF"
      [] w = W_plug -> "EXTERN"
      [] w = W_cookUp -> "LET"
      [] w = W_fr -> "IF"
      [] w = W_ong -> "ELSEIF"
      [] w = W_justLikeThat -> "ELSE"
      [] w = W_holdUp -> "WHILE"
      [] w = W_ratioed -> "FOR"
      [] w = W_ghost -> "BREAK"
      [] w = W_rizz -> "CONTINUE"
      [] w = W_periodt -> "RETURN"
      [] w \in {W_facts, W_cap} -> "BOOL"
      [] w = W_spillingTheTeaAbout -> "PROGRAM"
      [] w = W_gang -> "ARRAY"
      [] w = W_yeet -> "EXITCODE"
      [] OTHER -> "IDENTIFIER"

\* C7: a token that starts at a letter is the whole run of letters, digits,
\* '_' and '?' from there, with the kind the keyword table gives that run,
\* IDENTIFIER when the run is not in the table.  Stated for the runs that
\* read nothing after the terminator.
C7_KeywordClassification ==
    (phase = "lex" /\ mem = <<>>) =>
        \A i \in DOMAIN tokens :
            LET p == starts[i]
            IN  (p >= 1 /\ p <= Len(code) /\ code[p] \in Letters)
                    => LET w == Run(code, p, IdChars)
                       IN  tokens[i] = Token(C7_Mapping(w), w)

YeetLexed ==
    phase = "lex" /\ code = YeetSource /\ Len(tokens) >= 2

\* C8 as stated: `yeet 1337` gives (RETURN, "yeet") and (INT, "1337").
C8_YeetIsReturn ==
    YeetLexed =>
        /\ tokens[1] = Token("RETURN", W_yeet)
        /\ tokens[2] = Token("INT", <<"1", "3", "3", "7">>)

\* C8 amended: `yeet 1337` gives (EXITCODE, "yeet") and (INT, "1337").
C8_YeetIsExitcode ==
    YeetLexed =>
        /\ tokens[1] = Token("EXITCODE", W_yeet)
        /\ tokens[2] = Token("INT", <<"1", "3", "3", "7">>)

C8_Witness ==
    YeetLexed /\ tokens[1].lexeme = W_yeet

(***************************************************************************)
(* Claims about parse_expression.                                          *)
(***************************************************************************)
IntLit(n) ==
    Lit("int", n)

\* the level the precedence table gives an operator
Level(op) ==
    CASE op \in {<<"*">>, <<"/">>, <<"%">>} -> 40
      [] op \in {<<"+">>, <<"-">>} -> 20
      [] op \in {<<"<">>, <<"<", "=">>, <<">">>, <<">", "=">>,
                 <<"=", "=">>, <<"!", "=">>} -> 10

RECURSIVE OperatorsInOrder(_)
\* the operators of a tree of Binary nodes, left to right
OperatorsInOrder(n) ==
    IF n.type = "Binary"
    THEN OperatorsInOrder(n.lhs) \o <<n.op>> \o OperatorsInOrder(n.rhs)
    ELSE <<>>

RECURSIVE LeavesInOrder(_)
\* the atoms of a tree of Binary nodes, left to right
LeavesInOrder(n) ==
    IF n.type = "Binary"
    THEN LeavesInOrder(n.lhs) \o LeavesInOrder(n.rhs)
    ELSE <<n>>

AtomNodes ==
    <<Var(<<"a">>), IntLit(1), Var(<<"b">>), IntLit(2), Var(<<"c">>),
      IntLit(3)>>

\* the pieces of s between its blanks, in their order
Pieces(s) ==
    LET cuts == {0, Len(s) + 1} \cup {i \in DOMAIN s : s[i] = " "}
        firsts == {i \in DOMAIN s : s[i] # " " /\ (i - 1) \in cuts}
        Last(i) == (CHOOSE j \in cuts :
                        j > i /\ \A k \in cuts : k > i => j <= k) - 1
        Nth(k) == CHOOSE i \in firsts :
                      Cardinality({j \in firsts : j <= i}) = k
    IN  [k \in 1..Cardinality(firsts) |-> SubSeq(s, Nth(k), Last(Nth(k)))]

\* src is  atom op atom ... atom  with the atoms of AtomTexts in order
IsChainText(src) ==
    LET w == Pieces(src)
    IN  /\ Len(w) % 2 = 1
        /\ Len(w) <= 2 * Len(AtomTexts) - 1
        /\ \A i \in DOMAIN w :
            IF i % 2 = 1
            THEN w[i] = <<AtomTexts[(i + 1) \div 2]>>
            ELSE w[i] \in BinOps

\* the operators of a chain text, in its order
ChainOps(src) ==
    LET w == Pieces(src)
    IN  [i \in 1..(Len(w) \div 2) |-> w[2 * i]]

\* the tree has the operators and the atoms of the source, in its order
SameOrder(n, src) ==
    /\ OperatorsInOrder(n) = ChainOps(src)
    /\ LeavesInOrder(n) = SubSeq(AtomNodes, 1, Len(ChainOps(src)) + 1)

RECURSIVE BindsTighter(_)
\* no operand of an operator is an expression of a lower-level operator
BindsTighter(n) ==
    n.type = "Binary" =>
        /\ n.lhs.type = "Binary" => Level(n.lhs.op) >= Level(n.op)
        /\ n.rhs.type = "Binary" => Level(n.rhs.op) >= Level(n.op)
        /\ BindsTighter(n.lhs)
        /\ BindsTighter(n.rhs)

RECURSIVE NestsLeft(_)
\* no right operand of an operator is an expression of the same level
NestsLeft(n) ==
    n.type = "Binary" =>
        /\ n.rhs.type = "Binary" => Level(n.rhs.op) # Level(n.op)
        /\ NestsLeft(n.lhs)
        /\ NestsLeft(n.rhs)

ParsedChain ==
    phase = "done" /\ IsChainText(code)

\* C9: parse_expression turns atoms joined by binary operators into a tree
\* that keeps their order and in which an operator of a higher level is
\* grouped tighter than a neighbour of a lower level; `1 + 2 * 3` gives
\* Binary(+, 1, Binary(*, 2, 3)) and `a + b < c * d` gives
\* Binary(<, Binary(+, a, b), Binary(*, c, d)).
C9_Precedence ==
    /\ ParsedChain =>
        /\ outcome = "running"
        /\ current_token = EndOfFile
        /\ SameOrder(ast, code)
        /\ BindsTighter(ast)
    /\ (phase = "done" /\ code = Src_1_plus_2_times_3) =>
        ast = Binary(<<"+">>, IntLit(1),
                     Binary(<<"*">>, IntLit(2), IntLit(3)))
    /\ (phase = "done" /\ code = Src_a_plus_b_less_c_times_d) =>
        ast = Binary(<<"<">>,
                     Binary(<<"+">>, Var(<<"a">>), Var(<<"b">>)),
                     Binary(<<"*">>, Var(<<"c">>), Var(<<"d">>)))

C9_Witness ==
    /\ ParsedChain
    /\ ast.type = "Binary"
    /\ ast.rhs.type = "Binary"
    /\ Level(ast.rhs.op) > Level(ast.op)
    /\ ast.lhs.type = "Binary"
    /\ Level(ast.lhs.op) > Level(ast.op)

\* C10: a chain of binary operators of one level nests to the left: no
\* right operand is an expression of an operator of the same level, and
\* `1 - 2 - 3` gives Binary(-, Binary(-, 1, 2), 3).
C10_LeftAssociative ==
    /\ ParsedChain =>
        /\ outcome = "running"
        /\ SameOrder(ast, code)
        /\ NestsLeft(ast)
    /\ (phase = "done" /\ code = Src_1_minus_2_minus_3) =>
        ast = Binary(<<"-">>,
                     Binary(<<"-">>, IntLit(1), IntLit(2)), IntLit(3))

C10_Witness ==
    /\ ParsedChain
    /\ ast.type = "Binary"
    /\ ast.lhs.type = "Binary"
    /\ Level(ast.lhs.op) = Level(ast.op)
    /\ ast.lhs.lhs.type = "Binary"
    /\ Level(ast.lhs.lhs.op) = Level(ast.op)

(***************************************************************************)
(* Claims about statements, declarations and the module root.              *)
(***************************************************************************)
\* parse_tea was called on the source src and has returned or exited
TeaDone(src) ==
    phase = "done" /\ code = src

\* the module demo that holds the one function main() : return_type
MainModule(return_type, statements) ==
    TeaSpill(N_demo,
             <<PluhDeclaration(Prototype(N_main, <<>>, return_type),
                               CompoundStatement(statements))>>)

X_is_1 ==
    AssignmentStatement(<<"x">>, Lit("int", 1))

\* C11: fr? a { ghost } ong? b { rizz } justLikeThat? { x = 1 } parses to
\* If(a, Compound(ghost), If(b, Compound(rizz), Compound(x = 1))): the
\* ong? clause is a nested If in the else-branch.
C11_ElseIfChain ==
    TeaDone(FunctionText(N_npc, <<St_fr_ong>>)) =>
        /\ outcome = "running"
        /\ ast = MainModule(N_npc,
                   <<FrOngJustLikeThatStatement(
                       Var(<<"a">>),
                       CompoundStatement(<<GhostStatement>>),
                       FrOngJustLikeThatStatement(
                           Var(<<"b">>),
                           CompoundStatement(<<RizzStatement>>),
                           CompoundStatement(<<X_is_1>>)))>>)

\* parse_expression was called on the source src and has returned or exited
ExpressionDone(src) ==
    phase = "done" /\ code = src

\* C12: the BOOL token facts parses to Lit(bool, true) and the BOOL token
\* cap parses to Lit(bool, false).
C12_BoolLiterals ==
    /\ ExpressionDone(W_facts) =>
           outcome = "running" /\ ast = Lit("bool", TRUE)
    /\ ExpressionDone(W_cap) =>
           outcome = "running" /\ ast = Lit("bool", FALSE)

\* the statements of BodyStatements that are written as the grammar has them
WrittenStatements ==
    BodyStatements \ {St_yeet}

RECURSIVE StatementsOf(_, _)
\* the ways to read the words as statements of S, one after the other
StatementsOf(words, S) ==
    IF words = <<>>
    THEN {<<>>}
    ELSE UNION {{<<st>> \o rest :
                    rest \in StatementsOf(SubSeq(words, Len(Pieces(st)) + 1,
                                                 Len(words)), S)} :
                st \in {t \in S : IsPrefix(Pieces(t), words)}}

\* the bodies of statements of S that make src the module demo with the one
\* function main() : return_type { body }
BodiesOf(src, return_type, S) ==
    LET words == Pieces(src)
        head == Pieces(FunctionText(return_type, <<>>))
        n == Len(head) - 1
    IN  IF /\ Len(words) >= Len(head)
           /\ SubSeq(words, 1, n) = SubSeq(head, 1, n)
           /\ words[Len(words)] = <<"}">>
        THEN StatementsOf(SubSeq(words, n + 1, Len(words) - 1), S)
        ELSE {}

\* the body ends in a return statement
EndsInReturn(body) ==
    body # <<>> /\ body[Len(body)] = St_periodt

\* C13: a function declared with a return type other than npc is rejected
\* with ParseLogic when the last statement of its body is not a Return (an
\* empty body included), a function declared npc is rejected when the last
\* statement of its body is a Return, and the two other combinations are
\* accepted.
C13_ShallowReturnCheck ==
    phase = "done" =>
        \A return_type \in ReturnTypes :
            \A body \in BodiesOf(code, return_type, WrittenStatements) :
                IF (return_type # N_npc) = EndsInReturn(body)
                THEN /\ outcome = "running"
                     /\ ast.type = "TeaSpill"
                     /\ Len(ast.declarations) = 1
                     /\ ast.declarations[1].p =
                            Prototype(N_main, <<>>, return_type)
                     /\ ast.declarations[1].body.type = "Compound"
                     /\ Len(ast.declarations[1].body.statements) = Len(body)
                ELSE outcome = "ParseLogic" /\ ast = NoAst

\* a function declared int whose only return is inside a nested block was
\* rejected
C13_Witness ==
    /\ TeaDone(FunctionText(N_int, <<W_ghost, St_fr_periodt>>))
    /\ outcome = "ParseLogic"

Returns_0 ==
    MainModule(N_int, <<YeetStatement(Lit("int", 0))>>)

RECURSIVE StatementNodes(_)
RECURSIVE NodesOfAll(_)
\* the statement n and the statements inside it, in source order
StatementNodes(n) ==
    <<n>> \o CASE n.type = "FrOngJustLikeThat" ->
                     StatementNodes(n.then_stmt)
                         \o StatementNodes(n.else_stmt)
               [] n.type = "HoldUp" -> StatementNodes(n.body)
               [] n.type = "Compound" -> NodesOfAll(n.statements)
               [] OTHER -> <<>>

NodesOfAll(ns) ==
    IF ns = <<>>
    THEN <<>>
    ELSE StatementNodes(Head(ns)) \o NodesOfAll(Tail(ns))

RECURSIVE BodiesOfAll(_)
\* the bodies of the declarations that have one
BodiesOfAll(declarations) ==
    IF declarations = <<>>
    THEN <<>>
    ELSE (IF Head(declarations).body = NoBody
          THEN <<>>
          ELSE <<Head(declarations).body>>)
             \o BodiesOfAll(Tail(declarations))

\* the bodies of the functions of the module root that have one
BodiesOfRoot(root) ==
    BodiesOfAll(root.declarations)

\* how many times the word w is written in src
Written(src, w) ==
    Cardinality({i \in DOMAIN Pieces(src) : Pieces(src)[i] = w})

\* the If statements among nodes that hold something else than an empty
\* Compound as their else-branch
WithElse(nodes) ==
    {i \in DOMAIN nodes :
        /\ nodes[i].type = "FrOngJustLikeThat"
        /\ nodes[i].else_stmt # [type |-> "Compound", statements |-> <<>>]}

\* C15: in every AST that parse_tea returns, the then-branch of every If,
\* the body of every While and the body of every function that has one is
\* a Compound, and an If written without justLikeThat? has a Compound
\* with no statements as its else-branch: no more Ifs have another
\* else-branch than the source has justLikeThat? words.
C15_Structure ==
    (phase = "done" /\ ast.type = "TeaSpill") =>
        LET bodies == BodiesOfRoot(ast)
            nodes == NodesOfAll(bodies)
        IN  /\ \A i \in DOMAIN bodies : bodies[i].type = "Compound"
            /\ \A i \in DOMAIN nodes :
                /\ nodes[i].type = "FrOngJustLikeThat" =>
                       nodes[i].then_stmt.type = "Compound"
                /\ nodes[i].type = "HoldUp" =>
                       nodes[i].body.type = "Compound"
            /\ Cardinality(WithElse(nodes)) <= Written(code, W_justLikeThat)

\* an If without justLikeThat? and an If with it in one body
C15_Witness ==
    /\ TeaDone(FunctionText(N_npc, <<St_fr, St_fr_justLikeThat>>))
    /\ outcome = "running"
    /\ Len(ast.declarations[1].body.statements) = 2
    /\ Cardinality(WithElse(NodesOfAll(BodiesOfRoot(ast)))) = 1

\* the source starts with the PROGRAM word and an identifier
HasHeader(src) ==
    LET words == Pieces(src)
    IN  /\ Len(words) >= 2
        /\ words[1] = W_spillingTheTeaAbout
        /\ IsIdentifierText(words[2])

\* the function names of D_f, D_g and D_h
DeclaredName(d) ==
    CASE d = D_f -> <<"f">>
      [] d = D_g -> <<"g">>
      [] d = D_h -> <<"h">>

\* C16: parse_tea fails with ParseLogic unless the first token is PROGRAM
\* and the next one an IDENTIFIER, the module name; it then takes pluh and
\* plug declarations up to END_OF_FILE, fails with ParseLogic on any other
\* token there, and returns TeaSpill(name, decls), decls in source order.
C16_ModuleRoot ==
    phase = "done" =>
        /\ ~HasHeader(code) => outcome = "ParseLogic" /\ ast = NoAst
        /\ code \in {Src_statement_at_root, Src_after_declaration} =>
               outcome = "ParseLogic" /\ ast = NoAst
        /\ \A decls \in SeqsUpTo(Declarations, MaxDecls) :
               code = Join(<<Header>> \o decls) =>
                   /\ outcome \in {"running", "fault"}
                   /\ outcome = "running" =>
                       /\ ast.type = "TeaSpill"
                       /\ ast.name = N_demo
                       /\ Len(ast.declarations) = Len(decls)
                       /\ \A i \in DOMAIN decls :
                           IF decls[i] = D_h
                           THEN ast.declarations[i].body = NoBody
                           ELSE /\ ast.declarations[i].body # NoBody
                                /\ ast.declarations[i].p.name =
                                       DeclaredName(decls[i])

\* the module demo with main() : npc holding the one statement text
OneStatement(text) ==
    FunctionText(N_npc, <<text>>)

C18_External ==
    phase = "done" =>
        \A arguments \in SeqsUpTo(ArgumentPairs, MaxArgs),
           return_type \in ReturnTypes :
            code = Join(<<Header, PlugText(N_func, arguments, return_type)>>)
                => /\ outcome = "running"
                   /\ ast.type = "TeaSpill"
                   /\ Len(ast.declarations) = 1
                   /\ ast.declarations[1].body = NoBody
                   /\ ast.declarations[1].p =
                          Prototype(N_func, arguments, return_type)

\* C19: cookUp hello : int gives Decl("hello", "int"), cookUp hello : int
\* = 1337 gives DeclAssign("hello", "int", Lit(int, 1337)), and a cookUp
\* that is not followed by an identifier, a ":" and a type name in that
\* order is not accepted as a declaration.
C19_CookUp ==
    /\ TeaDone(OneStatement(St_cookUp)) =>
           ast = MainModule(N_npc, <<CookedUpStatement(N_hello, N_int)>>)
    /\ TeaDone(OneStatement(St_cookUp_assign)) =>
           ast = MainModule(N_npc,
                   <<CookedUpAssignmentStatement(N_hello, N_int,
                                                 Lit("int", 1337))>>)
    /\ \A text \in {St_cookUp_numbers, St_cookUp_no_colon} :
           TeaDone(OneStatement(text)) =>
               outcome # "running" /\ ast = NoAst

\* the tree of a primary of Primaries
PrimaryNode(t) ==
    CASE t = <<"a">> -> Var(<<"a">>)
      [] t = <<"1">> -> Lit("int", 1)
      [] t = W_cap -> Lit("bool", FALSE)
      [] t = <<"(", "a", ")">> -> Var(<<"a">>)
      [] t = <<"f", "(", ")">> -> Call(<<"f">>, <<>>)

\* C20: a unary +, - or ! written directly before a CHAR or STRING
\* literal is rejected with ParseLogic; before any other primary it gives
\* Unary(op, primary), which binds tighter than every binary operator on
\* either side of it: -a * b is Binary(*, Unary(-, a), b).
C20_Unary ==
    phase = "done" =>
        \A op \in UnaryOps :
            /\ \A t \in Quoted :
                   code = op \o t => outcome = "ParseLogic" /\ ast = NoAst
            /\ \A t \in Primaries :
                   code = op \o t =>
                       outcome = "running" /\ ast = Unary(op, PrimaryNode(t))
            /\ \A binop \in BinOps :
                /\ code = UnaryLeft(op, binop) =>
                       ast = Binary(binop, Unary(op, Var(<<"a">>)),
                                    Var(<<"b">>))
                /\ code = UnaryRight(op, binop) =>
                       ast = Binary(binop, Var(<<"a">>),
                                    Unary(op, Var(<<"b">>)))

\* -'c' was rejected
C20_Witness ==
    /\ ExpressionDone(<<"-", "'", "c", "'">>)
    /\ outcome = "ParseLogic"

\* the source whose declaration holds a char literal that is never closed
Src_open_char ==
    Join(<<Header, <<"'", "a">>>>)

\* the run has ended in one of the two reported errors
Errored ==
    outcome \in {"InvalidLiteral", "ParseLogic"}

\* C21: fail-fast. Once a lexer or parser routine has detected an error the
\* run is in the error outcome with exit code 1, parse_tea has returned no
\* TeaSpill, and nothing moves afterwards: the lexer is where the error left
\* it (the rejected token is the current one and the cursor is right behind
\* it), whether the error is the first token, a token inside the module, a
\* token at the end of the module or a literal the lexer rejects.
C21_FailFast ==
    /\ [](Errored => ExitCode = 1 /\ ast = NoAst)
    /\ [][Errored => UNCHANGED vars]_vars
    /\ [](TeaDone(Src_no_program) =>
              /\ outcome = "ParseLogic"
              /\ current_token = Token("DEF", W_pluh)
              /\ it = Len(W_pluh) + 2)
    /\ [](TeaDone(Src_statement_at_root) =>
              /\ outcome = "ParseLogic"
              /\ current_token = Token("IDENTIFIER", <<"x">>)
              /\ it = Len(Header) + 4)
    /\ [](TeaDone(Src_after_declaration) =>
              /\ outcome = "ParseLogic"
              /\ current_token = Token("COMPLEX", <<"}">>))
    /\ [](TeaDone(Src_open_char) =>
              /\ outcome = "InvalidLiteral"
              /\ it = Len(Src_open_char) + 2)

C21_Witness ==
    /\ TeaDone(Src_statement_at_root)
    /\ outcome = "ParseLogic"
    /\ ast = NoAst
    /\ it < Len(code)

Src_2147483648_plus_1 ==
    <<"2", "1", "4", "7", "4", "8", "3", "6", "4", "8", " ", "+", " ", "1">>

\* the token a fresh lexer returns first on the source
FirstToken(src) ==
    FirstTokens(Buffer(src, <<>>), FreshCursor, 1, <<>>)[1]

RECURSIVE Numeral(_)
\* the decimal digits of a natural number
Numeral(n) ==
    LET digit == <<"0", "1", "2", "3", "4", "5", "6", "7", "8", "9">>
    IN  IF n < 10
        THEN <<digit[n + 1]>>
        ELSE Append(Numeral(n \div 10), digit[(n % 10) + 1])

RECURSIVE LeftmostOperand(_)
\* the operand a tree of Binary nodes starts with
LeftmostOperand(n) ==
    IF n.type = "Binary" THEN LeftmostOperand(n.lhs) ELSE n

\* C22: an expression that starts with an INT token of at most 18 digits,
\* whose value is therefore below 2^63, is not ended by the conversion of
\* that token, and when the expression parses its first operand is the
\* integer literal whose value has the digits of the token.
C22_IntRange ==
    (phase = "done" /\ FirstToken(code).kind = "INT"
         /\ Len(FirstToken(code).lexeme) <= 18) =>
        /\ outcome # "Exception"
        /\ outcome = "running" =>
               /\ LeftmostOperand(ast).type = "Lit"
               /\ LeftmostOperand(ast).kind = "int"
               /\ Numeral(LeftmostOperand(ast).value) = FirstToken(code).lexeme

(***************************************************************************)
(* Claims about the command line.                                          *)
(***************************************************************************)
RECURSIVE IsOutputName(_, _)
\* the argument at j is the name that a -r before it takes
IsOutputName(args, j) ==
    /\ j > 1
    /\ args[j - 1] = W_r
    /\ ~IsOutputName(args, j - 1)

\* the arguments that are options: they start with - and name no output
Options(args) ==
    {j \in 1..Len(args) :
         ~IsOutputName(args, j) /\ args[j] # <<>> /\ args[j][1] = "-"}

\* the arguments that are neither an option nor the name of the output
Positionals(args) ==
    {j \in 1..Len(args) : ~IsOutputName(args, j) /\ j \notin Options(args)}

FlagLetters(arg) ==
    {arg[k] : k \in 2..Len(arg)}

\* no positional argument, more than one, -r as the last argument, an
\* unknown flag letter or -h
Rejected(args) ==
    \/ Cardinality(Positionals(args)) # 1
    \/ Len(args) \in Options(args) /\ args[Len(args)] = W_r
    \/ \E j \in Options(args) :
           args[j] # W_r /\ ~(FlagLetters(args[j]) \subseteq {"v", "e"})

\* the name the last -r gives the output, output.ll without one
OutputName(args) ==
    LET given == {j \in Options(args) : args[j] = W_r /\ j < Len(args)}
    IN  IF given = {}
        THEN W_output_ll
        ELSE args[(CHOOSE j \in given : \A k \in given : k <= j) + 1]

\* main has left the arguments behind and reads, or has read, the file
ReadsFile ==
    phase \in {"process_file", "Slang"} \/ outcome = "ProcessFile"

\* what main does with the arguments that rejects(argv) tells apart
CommandLine(rejected) ==
    /\ outcome = "Usage" =>
           /\ rejected
           /\ ExitCode = 1
           /\ phase = "exit"
           /\ code = <<>>
    /\ ReadsFile =>
           /\ ~rejected
           /\ \E j \in Positionals(argv) : file_path = argv[j]
           /\ filename = OutputName(argv)
    /\ phase = "exit" => outcome \in {"Usage", "ProcessFile"}

\* C23 as the claim has it: main prints usage and exits with code 1 before
\* a file is read exactly when there is no positional argument, more than
\* one, -r as the last argument, an unknown flag letter or -h; otherwise it
\* reads the file the positional argument names and the output is output.ll
\* unless -r gave a name.
C23_AsStated ==
    CommandLine(Rejected(argv))

\* C23: main prints usage and exits with code 1 before a file is read
\* exactly when there is no positional argument, more than one, an empty
\* positional argument, -r as the last argument, an unknown flag letter or
\* -h; otherwise it reads the file the positional argument names and the
\* output is output.ll unless -r gave a name.
C23_CommandLine ==
    CommandLine(Rejected(argv) \/ \E j \in Positionals(argv) : argv[j] = <<>>)

C23_Witness ==
    /\ phase = "Slang"
    /\ argv = <<W_r, <<"o">>, <<"a">>>>
    /\ file_path = <<"a">>
    /\ filename = <<"o">>

\* C24: a token that is not an OPERATOR has no precedence, whatever its
\* lexeme. The CHAR literal '+' after 1 does not continue the expression:
\* parse_expression returns the literal 1 and leaves the CHAR token as the
\* current one. The STRING literal "-" at the start is not taken as a unary
\* operator: it parses as the string literal.
C24_OperatorKind ==
    /\ ExpressionDone(Src_1_char_plus_2) =>
           /\ get_op_precedence(Token("CHAR", <<"+">>)) = -1
           /\ ast = IntLit(1)
           /\ current_token = Token("CHAR", <<"+">>)
    /\ ExpressionDone(Src_string_minus_a) =>
           /\ get_op_precedence(Token("STRING", <<"-">>)) = -1
           /\ ast = Lit("string", <<"-">>)
           /\ current_token = Token("IDENTIFIER", <<"a">>)

(***************************************************************************)
(* Claims about comments and the cursor.                                   *)
(***************************************************************************)
RECURSIVE AfterSpace(_, _)
\* the first position from p on that holds no whitespace
AfterSpace(src, p) ==
    IF p <= Len(src) /\ src[p] \in Space
    THEN AfterSpace(src, p + 1)
    ELSE p

\* the source is front, comment, back and has been lexed to its end
LexedAround(front, comment, back) ==
    /\ phase = "lex"
    /\ code = front \o comment \o back
    /\ plain = front \o back
    /\ Finished

\* no token starts inside the comment, and the first token behind the
\* comment starts at the first byte behind it that is no whitespace
ResumesBehind(front, comment) ==
    LET last == Len(front) + Len(comment)
    IN  /\ outcome = "running"
        /\ \A i \in DOMAIN starts :
               starts[i] \notin (Len(front) + 1)..last
        /\ \E i \in DOMAIN starts :
               /\ starts[i] = AfterSpace(code, last + 1)
               /\ tokens[i] # EndOfFile

\* C25: a line comment is the bytes from Cancelled up to and including the
\* first line terminator behind it, also when the terminator comes right
\* after the marker: the call that meets it returns the first token behind
\* that terminator.
C25_LineComment ==
    \A front \in Fronts, comment \in LineComments, back \in Backs :
        LexedAround(front, comment, back) => ResumesBehind(front, comment)

\* C26: a block comment is the bytes from Blocked up to and including the
\* first Unblocked behind it, whatever lies between them (nothing, a U, a
\* line break): the call that meets it returns the first token behind the
\* closing word.
C26_BlockComment ==
    \A front \in Fronts, comment \in BlockComments, back \in Backs :
        LexedAround(front, comment, back) => ResumesBehind(front, comment)

(***************************************************************************)
(* Claims about blocks and termination.                                    *)
(***************************************************************************)
\* C27: { x = 1 } parses to the Compound of its statements, and a block
\* that does not open with { is rejected: ( at the start of a statement,
\* ghost after the condition of fr? or holdUp, ghost after the prototype of
\* a pluh.
C27_CurlyCompound ==
    /\ TeaDone(OneStatement(St_curly)) =>
           ast = MainModule(N_npc, <<CompoundStatement(<<X_is_1>>)>>)
    /\ \A src \in NoBraceSources :
           TeaDone(src) => outcome = "ParseLogic" /\ ast = NoAst

\* the bytes the cursor s has still to deliver: the current byte, then the
\* buffer from the iterator on
Stream(b, s) ==
    <<s.cc>> \o SubSeq(b, s.it, Len(b))

\* is_keyword(w) called where get_token calls it: at the cursor behind the
\* white space
KeywordTest(w) ==
    is_keyword(Buffer(code, mem), SkipSpace(Buffer(code, mem), Cursor), w)

\* C28: at every cursor a call of get_token starts from, is_keyword(w)
\* answers true exactly when the stream begins with w, then leaves the
\* current byte right behind w, and leaves the cursor as it was when it
\* answers false.
C28_IsKeywordFrame ==
    (phase = "lex" /\ outcome = "running") =>
        \A w \in {Cancelled, Blocked, Unblocked} :
            LET b == Buffer(code, mem)
                s == SkipSpace(b, Cursor)
            IN  ~KeywordTest(w).s.fault =>
                    /\ KeywordTest(w).match <=> IsPrefix(w, Stream(b, s))
                    /\ KeywordTest(w).match =>
                           /\ KeywordTest(w).s.cc = Stream(b, s)[Len(w) + 1]
                           /\ KeywordTest(w).s.it = s.it + Len(w)
                    /\ ~KeywordTest(w).match => KeywordTest(w).s = s

\* C29: however get_token is called on a null-terminated source, no byte
\* behind the terminating null is read: the iterator stays at most one
\* position behind the terminator and no call ends in a fault.
C29_CursorBound ==
    phase = "lex" =>
        /\ outcome # "fault"
        /\ mem = <<>>
        /\ it <= Len(code) + 2

RECURSIVE TokenStates(_, _, _)
\* the parser states with each of the first n tokens of the buffer as the
\* current token, up to END_OF_FILE or the call that does not return
TokenStates(b, ps, n) ==
    IF ps.out # "ok"
    THEN {}
    ELSE IF n = 0 \/ ps.tok = EndOfFile
    THEN {ps}
    ELSE {ps} \cup TokenStates(b, NextToken(b, ps), n - 1)

\* the states the Parser can be in on the source, the source being all
\* that is read
StatesOn(src) ==
    TokenStates(Buffer(src, <<>>),
                NextToken(Buffer(src, <<>>),
                          [s |-> FreshCursor, tok |-> NoToken, out |-> "ok"]),
                Len(src) + 1)

\* the routine has ended the parse or has consumed a token: the Lexer has
\* moved on, or the current token has become the END_OF_FILE that the
\* Lexer, at the terminator already, returns without moving
Advanced(ps, after) ==
    \/ after.out # "ok"
    \/ after.s.it > ps.s.it
    \/ ps.tok # EndOfFile /\ after.tok = EndOfFile

\* One round of each loop, from every token of the source: the round of
\* parse_curly_compound parses a statement, that of parse_binary_op_rhs
\* takes an operator and its operand, that of parse_argument_call_list an
\* expression, that of parse_prototype an argument, that of
\* parse_declarations a pluh or a plug.  A round that is entered ends the
\* parse or moves the Lexer on, and no round is entered on END_OF_FILE
\* without ending the parse.
LoopsAdvance(b, ps) ==
    /\ ps.tok.lexeme # <<"}">> =>
           Advanced(ps, parse_statement(b, ps).ps)
    /\ get_op_precedence(ps.tok) >= 0 =>
           Advanced(ps, parse_binary_op_rhs(b, 0, NoAst, ps).ps)
    /\ ps.tok.lexeme # <<")">> =>
           Advanced(ps, parse_expression(b, ps).ps)
    /\ NextToken(b, ps).tok.kind = "IDENTIFIER" =>
           Advanced(ps, ArgumentNames(b, ps, <<>>).ps)
    /\ ps.tok.kind = "DEF" => Advanced(ps, parse_pluh(b, ps).ps)
    /\ ps.tok.kind = "EXTERN" =>
           \A self \in Unconstructed :
               Advanced(ps, parse_plug(b, ps, self).ps)
    /\ ps.tok.kind \notin {"DEF", "EXTERN"} =>
           \A self \in Unconstructed :
               DeclarationLoop(b, ps, self, <<>>).ps.out # "ok"
                   \/ ps.tok = EndOfFile

\* parse_tea has returned a TeaSpill or the process has exited
Ended ==
    \/ outcome # "running"
    \/ phase = "done" /\ ast.type = "TeaSpill"

\* C30: on every source parse_tea returns a TeaSpill or the run ends in an
\* error, and every round of the loops of parse_curly_compound,
\* parse_binary_op_rhs, parse_argument_call_list, parse_prototype and
\* parse_declarations, from whichever token of the source it starts,
\* consumes a token or ends the parse; on END_OF_FILE none goes round.
C30_Termination ==
    /\ <>Ended
    /\ [](phase = "new" =>
              \A ps \in StatesOn(code) : LoopsAdvance(Buffer(code, <<>>), ps))

C30_Witness ==
    /\ phase = "done"
    /\ ast.type = "TeaSpill"
    /\ Len(ast.declarations) = 2
    /\ ast.declarations[2].body.type = "Compound"
    /\ Len(ast.declarations[2].body.statements) >= 1
    /\ current_token = EndOfFile


====
